---- MODULE Spec2Model ----
(***************************************************************************)
(* Cloud SDK test driver: the installation lifecycle (Init, Destroy,       *)
(* Manager), the SDK factories and the Config container, as state          *)
(* machines over the process environment (os.environ), the directories of  *)
(* the file system and the Config object.                                  *)
(***************************************************************************)
EXTENDS Integers, Sequences, FiniteSets, TLC

\* ------------------------------------------------------------------------
\* Bounds of the model (not program constants).
\* ------------------------------------------------------------------------
MaxTmp == 2      \* temporary directories tempfile.mkdtemp can hand out
MaxRoots == 1    \* root_directory paths a caller may pass
MaxScopes == 1   \* Manager scopes open at the same time

\* ------------------------------------------------------------------------
\* Values.
\* ------------------------------------------------------------------------
None == "None"          \* Python's None, where a string is expected
NoError == "NoError"    \* the call returned normally
EmptyMap == [k \in {} |-> "x"]

\* Truthiness of a string-or-None value.
Truthy(v) == v # None /\ v # ""

\* dict operations
Put(d, k, v) == [x \in (DOMAIN d) \cup {k} |-> IF x = k THEN v ELSE d[x]]
Pop(d, k) == [x \in (DOMAIN d) \ {k} |-> d[x]]
Get(d, k) == IF k \in DOMAIN d THEN d[k] ELSE None
Update(d, e) == [x \in (DOMAIN d) \cup (DOMAIN e) |->
                   IF x \in DOMAIN e THEN e[x] ELSE d[x]]
Range(s) == {s[i] : i \in DOMAIN s}

\* ------------------------------------------------------------------------
\* constants.py
\* ------------------------------------------------------------------------
RELEASE_TAR ==
  "https://dl.google.com/dl/cloudsdk/channels/rapid/google-cloud-sdk.tar.gz"
DRIVER_LOCATION_ENV == "CLOUDSDK_DRIVER_LOCATION"
DRIVER_KEEP_LOCATION_ENV == "CLOUDSDK_DRIVER_KEEP_LOCATION"
SNAPSHOT_ENV == "CLOUDSDK_COMPONENT_MANAGER_SNAPSHOT_URL"
PYTHON_ENV == "CLOUDSDK_PYTHON"
CONFIG_ENV == "CLOUDSDK_CONFIG"
PYTHON_PATH == "PYTHONPATH"
COMPONENTS_FILE == "components-2.json"
INSTALLER_FILE == "google-cloud-sdk.tar.gz"
SDK_FOLDER == "google-cloud-sdk"
REPO_FOLDER == "repo"
DOWNLOAD_FOLDER == "downloads"
BIN_FOLDER == "bin"
LOCKED_ENVIRONMENT_VARIABLES == {CONFIG_ENV, DRIVER_LOCATION_ENV}
DEFAULT_CONFIG ==
  [environment_variables |-> [CLOUDSDK_CORE_DISABLE_PROMPTS |-> "1"],
   service_account_email |-> None,
   service_account_keyfile |-> None,
   project |-> None,
   properties |-> EmptyMap]

\* ------------------------------------------------------------------------
\* The inputs the calls are tried with.
\* ------------------------------------------------------------------------
TmpNames == <<"/tmp/tmpA", "/tmp/tmpB", "/tmp/tmpC", "/tmp/tmpD">>
RootNames == <<"/work/sdk1", "/work/sdk2", "/work/sdk3", "/work/sdk4">>
TmpDirs == {TmpNames[i] : i \in 1..MaxTmp}
CallerDirs == {RootNames[i] : i \in 1..MaxRoots}
Dirs == TmpDirs \cup CallerDirs

LocalTar == "/data/google-cloud-sdk.tar.gz"
TarLocations == {None, LocalTar}
Schemes == {"http://", "https://"}

\* os.environ of the process before the driver is used
HostEnviron == [PATH |-> "/usr/bin:/bin"]
HostSnapshot == "https://example.com/host/components-2.json"

\* additional_components: None, a list of component names, or a bare string
NoComponents == [kind |-> "None", items |-> <<>>, text |-> ""]
ComponentArgs ==
  {NoComponents,
   [kind |-> "list", items |-> <<"foo", "bar">>, text |-> ""],
   [kind |-> "str", items |-> <<>>, text |-> "foo"],
   [kind |-> "str", items |-> <<>>, text |-> ""]}

\* What the world outside the driver does during one Init: the temporary
\* directory mkdtemp creates, whether the tar can be fetched or found,
\* whether it unpacks, whether a components file was found, the installer's
\* exit code and whether the SDK directory is there afterwards.
\* What follows a failure is never looked at, so there is one world for each
\* failure.
Worlds ==
  {w \in [tmp : TmpDirs, download : {"ok", "fail"},
          unpack : {"ok", "TarError"}, snapshot : BOOLEAN,
          returncode : {0, 1}, sdk_dir : BOOLEAN] :
     /\ w.download = "fail" => w.unpack = "ok"
     /\ (w.download = "fail" \/ w.unpack = "TarError") => w.returncode = 0
     /\ (w.download = "fail" \/ w.unpack = "TarError" \/ w.returncode # 0)
          => w.sdk_dir
     /\ w.snapshot =>
          (w.download = "ok" /\ w.unpack = "ok" /\ w.returncode = 0
           /\ w.sdk_dir)}

VARIABLES
  os_environ,      \* os.environ: variable name -> value
  fs,              \* the directories that exist (os.path.isdir)
  sys_executable,  \* sys.executable (None when it cannot be determined)
  os_name,         \* os.name
  scopes,          \* number of Manager scopes whose body is running
  origin,          \* history: how the active record's root came to be
  torn_down,       \* history: some Destroy has cleared a record
  last,            \* history: the last call, its outcome and the state before
  config,          \* the Config object under test
  cfg_last,        \* history: the last Config call and its outcome
  heap,            \* the nested mappings of the objects below, by reference
  cfg_obj,         \* a Config's __dict__, its nested mappings by reference
  frozen,          \* the ImmutableConfigs' __dict__, by slot
  frozen_seen,     \* history: what each ImmutableConfig was built from
  frz_last,        \* history: the last call on these objects
  sdk,             \* the SDK object (handle) a factory returned
  run_last,        \* history: the last call on the handle and its outcome
  files,           \* the files and directories on disk: path -> content
  tar_last,        \* history: the last call of _sdk_tar and its outcome
  envs,            \* the environment mapping of each SDK object, by reference
  env_last         \* history: the last SDKFromConfig on these objects

lifecycle_vars == <<os_environ, fs, sys_executable, os_name, scopes, origin,
                    torn_down, last>>
config_vars == <<config, cfg_last>>
frozen_vars == <<heap, cfg_obj, frozen, frozen_seen, frz_last>>
handle_vars == <<sdk, run_last>>
tar_vars == <<files, tar_last>>
environ_vars == <<envs, env_last>>
object_vars == <<frozen_vars, handle_vars, tar_vars, environ_vars>>
vars == <<os_environ, fs, sys_executable, os_name, scopes, origin, torn_down,
          last, config, cfg_last, heap, cfg_obj, frozen, frozen_seen,
          frz_last, sdk, run_last, files, tar_last, envs, env_last>>

NoOrigin == [root |-> None, given |-> FALSE, existed |-> FALSE]

\* ------------------------------------------------------------------------
\* error.py: the error types and the helpers that raise them.
\* ------------------------------------------------------------------------
RaiseInvalidKey(key) == "ConfigError"

ValidateLockedEnvironmentVariables(cfg) ==
  IF /\ "environment_variables" \in DOMAIN cfg
     /\ \E v \in LOCKED_ENVIRONMENT_VARIABLES :
          v \in DOMAIN cfg["environment_variables"]
  THEN "ConfigError" ELSE NoError

HandlePossibleError(returncode, error_type) ==
  IF returncode # 0 THEN error_type ELSE NoError

RaiseTarError(action) == "InitError"

\* ------------------------------------------------------------------------
\* Config values and the documents a Config is built from.
\* ------------------------------------------------------------------------
DefaultKeys == DOMAIN DEFAULT_CONFIG
EnvMaps ==
  {DEFAULT_CONFIG.environment_variables,
   EmptyMap,
   [FOO |-> "bar"],
   [CLOUDSDK_CONFIG |-> "foo"],
   [FOO |-> "bar", CLOUDSDK_DRIVER_LOCATION |-> "elsewhere"]}
PropMaps == {EmptyMap, Put(EmptyMap, "core/account", "me")}
Scalars == {None, "foo", "bar"}
AttrNames == DefaultKeys \cup {"foo"}
ValuesFor(name) ==
  IF name = "environment_variables" THEN EnvMaps
  ELSE IF name = "properties" THEN PropMaps
  ELSE Scalars

\* dictionaries passed as keyword arguments or as SDKFromDict's argument
Overlays ==
  {EmptyMap,
   [project |-> "foo"],
   [project |-> "bar", service_account_keyfile |-> "foo"],
   [environment_variables |-> [FOO |-> "bar"]],
   [environment_variables |-> [CLOUDSDK_CONFIG |-> "foo"]],
   [properties |-> Put(EmptyMap, "core/account", "me"),
    service_account_email |-> "bar"],
   [foo |-> "bar"],
   [project |-> "foo", foo |-> "bar"]}

\* The YAML files: what open() and yaml.load() give for each file name.
YamlFiles ==
  {"testdata/test_partial.yaml", "testdata/test_bad_key.yaml",
   "testdata/test_not_dict.yaml", "testdata/test_bad_env.yaml",
   "testdata/test_env.yaml", "testdata/test_invalid.yaml",
   "testdata/test_mixed.yaml", "testdata/test_mixed_env.yaml",
   "testdata/no_such_file.yaml"}
yaml_load(filename) ==
  CASE filename = "testdata/test_partial.yaml" ->
         [kind |-> "dict", value |-> [project |-> "foo"]]
    [] filename = "testdata/test_bad_key.yaml" ->
         [kind |-> "dict", value |-> [foo |-> "bar"]]
    [] filename = "testdata/test_not_dict.yaml" ->
         [kind |-> "list", value |-> EmptyMap]
    [] filename = "testdata/test_bad_env.yaml" ->
         [kind |-> "dict",
          value |-> [environment_variables |-> [CLOUDSDK_CONFIG |-> "foo"]]]
    [] filename = "testdata/test_env.yaml" ->
         [kind |-> "dict",
          value |-> [environment_variables |-> EmptyMap,
                     service_account_keyfile |-> "bar"]]
    [] filename = "testdata/test_invalid.yaml" ->
         [kind |-> "ParseError", value |-> EmptyMap]
    [] filename = "testdata/test_mixed.yaml" ->
         [kind |-> "dict", value |-> [project |-> "bar", foo |-> "bar"]]
    [] filename = "testdata/test_mixed_env.yaml" ->
         [kind |-> "dict",
          value |-> [service_account_email |-> "bar",
                     environment_variables |-> [CLOUDSDK_CONFIG |-> "foo"]]]
    [] OTHER -> [kind |-> "IOError", value |-> EmptyMap]

\* ------------------------------------------------------------------------
\* _config.BaseConfig and driver.Config. An operation on a Config gives the
\* error it raises (NoError when it returns), the object's __dict__
\* afterwards, and the top-level keys it was asked to set.
\* ------------------------------------------------------------------------
\* Variant: the keys of the dictionary are not checked.
_UpdateDict_unchecked(self_dict, dictionary) ==
  [err |-> NoError, dict |-> Update(self_dict, dictionary),
   asked |-> DOMAIN dictionary]

\* Variant: the keys are checked and applied one at a time, so the valid
\* keys of a rejected dictionary are applied.
_UpdateDict_partial(self_dict, dictionary) ==
  IF \E key \in DOMAIN dictionary : key \notin DOMAIN DEFAULT_CONFIG
  THEN [err |-> RaiseInvalidKey(CHOOSE key \in DOMAIN dictionary :
                                  key \notin DOMAIN DEFAULT_CONFIG),
        dict |-> Update(self_dict,
                        [k \in (DOMAIN dictionary) \cap (DOMAIN DEFAULT_CONFIG)
                           |-> dictionary[k]]),
        asked |-> DOMAIN dictionary]
  ELSE [err |-> NoError, dict |-> Update(self_dict, dictionary),
        asked |-> DOMAIN dictionary]

_UpdateDict(self_dict, dictionary) ==
  IF \E key \in DOMAIN dictionary : key \notin DOMAIN DEFAULT_CONFIG
  THEN [err |-> RaiseInvalidKey(CHOOSE key \in DOMAIN dictionary :
                                  key \notin DOMAIN DEFAULT_CONFIG),
        dict |-> self_dict, asked |-> DOMAIN dictionary]
  ELSE [err |-> NoError, dict |-> Update(self_dict, dictionary),
        asked |-> DOMAIN dictionary]

LoadFile(self_dict, filename) ==
  LET doc == yaml_load(filename) IN
  IF doc.kind = "IOError"
  THEN [err |-> "IOError", dict |-> self_dict, asked |-> {}]
  ELSE IF doc.kind = "ParseError"
  THEN [err |-> "ConfigError", dict |-> self_dict, asked |-> {}]
  ELSE IF doc.kind # "dict"
  THEN [err |-> "ConfigError", dict |-> self_dict, asked |-> {}]
  ELSE IF ValidateLockedEnvironmentVariables(doc.value) # NoError
  THEN [err |-> ValidateLockedEnvironmentVariables(doc.value),
        dict |-> self_dict, asked |-> DOMAIN doc.value]
  ELSE _UpdateDict(self_dict, doc.value)

Config__setattr__(self_dict, name, value) ==
  IF name \notin DOMAIN self_dict
  THEN [err |-> RaiseInvalidKey(name), dict |-> self_dict, asked |-> {name}]
  ELSE [err |-> NoError, dict |-> Put(self_dict, name, value),
        asked |-> {name}]

Config__setitem__(self_dict, key, value) ==
  Config__setattr__(self_dict, key, value)

\* Variant: the file is loaded after the keyword arguments are applied.
Config__init___file_last(filename, kwargs) ==
  LET d0 == _UpdateDict(EmptyMap, DEFAULT_CONFIG)
      d2 == _UpdateDict(d0.dict, kwargs)
      d1 == IF filename # None THEN LoadFile(d2.dict, filename)
            ELSE [err |-> NoError, dict |-> d2.dict, asked |-> {}]
  IN IF d2.err # NoError THEN d2
     ELSE IF d1.err # NoError
     THEN [err |-> d1.err, dict |-> d1.dict,
           asked |-> d1.asked \cup d2.asked]
     ELSE [err |-> ValidateLockedEnvironmentVariables(d1.dict),
           dict |-> d1.dict, asked |-> d1.asked \cup d2.asked]

Config__init__(filename, kwargs) ==
  LET d0 == _UpdateDict(EmptyMap, DEFAULT_CONFIG)
      d1 == IF filename # None THEN LoadFile(d0.dict, filename)
            ELSE [err |-> NoError, dict |-> d0.dict, asked |-> {}]
      d2 == _UpdateDict(d1.dict, kwargs)
  IN IF d1.err # NoError THEN d1
     ELSE IF d2.err # NoError
     THEN [err |-> d2.err, dict |-> d2.dict,
           asked |-> d1.asked \cup d2.asked]
     ELSE [err |-> ValidateLockedEnvironmentVariables(d2.dict),
           dict |-> d2.dict, asked |-> d1.asked \cup d2.asked]

Validate(self_dict) == ValidateLockedEnvironmentVariables(self_dict)

\* ------------------------------------------------------------------------
\* driver.Destroy, as a function of os.environ and the directories.
\* ------------------------------------------------------------------------
\* Variant: the keep marker is cleared only together with a record.
DestroyRun_keep_with_record(environ, dirs) ==
  LET root_directory == Get(environ, DRIVER_LOCATION_ENV)
      keep_location == Get(environ, DRIVER_KEEP_LOCATION_ENV)
      rmtree == /\ root_directory # None
                /\ root_directory \in dirs
                /\ ~Truthy(keep_location)
      env1 == IF root_directory # None
              THEN Pop(Pop(environ, DRIVER_LOCATION_ENV),
                       DRIVER_KEEP_LOCATION_ENV)
              ELSE environ
  IN [environ |-> env1,
      fs |-> IF rmtree THEN dirs \ {root_directory} ELSE dirs,
      steps |-> IF rmtree THEN <<"Destroy", "rmtree">> ELSE <<"Destroy">>]

DestroyRun(environ, dirs) ==
  LET root_directory == Get(environ, DRIVER_LOCATION_ENV)
      keep_location == Get(environ, DRIVER_KEEP_LOCATION_ENV)
      rmtree == /\ root_directory # None
                /\ root_directory \in dirs
                /\ ~Truthy(keep_location)
      env1 == IF root_directory # None
              THEN Pop(environ, DRIVER_LOCATION_ENV) ELSE environ
      env2 == IF keep_location # None
              THEN Pop(env1, DRIVER_KEEP_LOCATION_ENV) ELSE env1
  IN [environ |-> env2,
      fs |-> IF rmtree THEN dirs \ {root_directory} ELSE dirs,
      steps |-> IF rmtree THEN <<"Destroy", "rmtree">> ELSE <<"Destroy">>]

\* ------------------------------------------------------------------------
\* driver.Init, as a function of os.environ, the directories, the arguments
\* and what the world does (w). The result is the error raised (NoError when
\* Init returns), os.environ and the directories afterwards, and the steps
\* taken in order, with the environment and the command the installer was
\* started with.
\* ------------------------------------------------------------------------
_IsOnWindows(name) == name = "nt"

\* Variants: the check for an active record is dropped, or always fires.
AlreadyInitialized_never(environ) == FALSE
AlreadyInitialized_always(environ) == TRUE

AlreadyInitialized(environ) == DRIVER_LOCATION_ENV \in DOMAIN environ

HasScheme(location) ==
  \E s \in Schemes :
    /\ Len(location) >= Len(s)
    /\ SubSeq(location, 1, Len(s)) = s

\* _sdk_tar.DownloadTar: the error it raises, if any.
DownloadTarOutcome(tar_location, w) ==
  IF HasScheme(tar_location)
  THEN IF w.download = "ok" THEN NoError ELSE RaiseTarError("downloading")
  ELSE IF w.download = "ok" THEN NoError ELSE "ValueError"

\* _sdk_tar.UnpackTar: the error it raises, if any, and the snapshot URL.
UnpackTarOutcome(w) ==
  IF w.unpack = "ok"
  THEN [err |-> NoError,
        snapshot_url |-> IF w.snapshot THEN "file://components-2.json"
                         ELSE None]
  ELSE [err |-> RaiseTarError("extracting"), snapshot_url |-> None]

\* Variant: the resolved variables are laid over the host environment.
InstallerEnv_resolved_wins(environ, sysexe, snapshot_url) ==
  LET e0 == IF Truthy(snapshot_url)
            THEN Put(EmptyMap, SNAPSHOT_ENV, snapshot_url) ELSE EmptyMap
      e1 == IF Truthy(sysexe) THEN Put(e0, PYTHON_ENV, sysexe) ELSE e0
  IN Update(environ, e1)

\* The environment the installer is started with.
InstallerEnv(environ, sysexe, snapshot_url) ==
  LET e0 == IF Truthy(snapshot_url)
            THEN Put(EmptyMap, SNAPSHOT_ENV, snapshot_url) ELSE EmptyMap
      e1 == IF Truthy(sysexe) THEN Put(e0, PYTHON_ENV, sysexe) ELSE e0
  IN Update(e1, environ)

\* Variant: the components follow the fixed flags without their own flag.
InstallerCommand_no_flag(root_directory, additional_components) ==
  <<"./install.sh", "--disable-installation-options",
    "--bash-completion=false", "--path-update=false",
    "--usage-reporting=false",
    "--rc-path=" \o root_directory \o "/.bashrc">>
  \o (IF additional_components.kind = "list"
      THEN additional_components.items ELSE <<>>)

InstallerCommand(root_directory, additional_components) ==
  <<"./install.sh", "--disable-installation-options",
    "--bash-completion=false", "--path-update=false",
    "--usage-reporting=false",
    "--rc-path=" \o root_directory \o "/.bashrc">>
  \o (IF additional_components.kind = "list"
         /\ additional_components.items # <<>>
      THEN <<"--additional-components">> \o additional_components.items
      ELSE <<>>)

ComponentsTruthy(additional_components) ==
  \/ additional_components.kind = "list" /\ additional_components.items # <<>>
  \/ additional_components.kind = "str" /\ additional_components.text # ""

InitRaise(environ, dirs, err, why, steps, init) ==
  [err |-> err, why |-> why, environ |-> environ, fs |-> dirs,
   steps |-> steps, init |-> init, env |-> EmptyMap, command |-> <<>>,
   components |-> NoComponents, snapshot_url |-> None]

\* Variant: the installation is recorded before the SDK directory is checked.
InitFinish_publish_early(environ, dirs, steps, init, w) ==
  IF HandlePossibleError(w.returncode, "InitError") # NoError
  THEN InitRaise(environ, dirs, "InitError", "SDK installation failed",
                 steps \o <<"Popen">>, init)
  ELSE IF ~w.sdk_dir
  THEN InitRaise(Put(environ, DRIVER_LOCATION_ENV, init.root), dirs,
                 "InitError", "SDK directory was not created",
                 steps \o <<"Popen", "publish", "isdir">>, init)
  ELSE [err |-> NoError, why |-> "",
        environ |-> Put(environ, DRIVER_LOCATION_ENV, init.root),
        fs |-> dirs, steps |-> steps \o <<"Popen", "publish", "isdir">>,
        init |-> init, env |-> EmptyMap, command |-> <<>>,
        components |-> NoComponents, snapshot_url |-> None]

\* The end of Init: the installer has run; check its exit code and the SDK
\* directory, then record the installation.
InitFinish(environ, dirs, steps, init, w) ==
  IF HandlePossibleError(w.returncode, "InitError") # NoError
  THEN InitRaise(environ, dirs, "InitError", "SDK installation failed",
                 steps \o <<"Popen">>, init)
  ELSE IF ~w.sdk_dir
  THEN InitRaise(environ, dirs, "InitError", "SDK directory was not created",
                 steps \o <<"Popen", "isdir">>, init)
  ELSE [err |-> NoError, why |-> "",
        environ |-> Put(environ, DRIVER_LOCATION_ENV, init.root),
        fs |-> dirs, steps |-> steps \o <<"Popen", "isdir", "publish">>,
        init |-> init, env |-> EmptyMap, command |-> <<>>,
        components |-> NoComponents, snapshot_url |-> None]

\* Variant: an existing root directory is not marked as to be kept.
InitRoot_no_keep(environ, dirs, root_directory, w) ==
  IF root_directory = None
  THEN [environ |-> environ, fs |-> dirs \cup {w.tmp}, steps |-> <<"mkdtemp">>,
        init |-> [root |-> w.tmp, given |-> FALSE, existed |-> FALSE]]
  ELSE [environ |-> environ, fs |-> dirs \cup {root_directory},
        steps |-> <<"makedirs">>,
        init |-> [root |-> root_directory, given |-> TRUE,
                  existed |-> root_directory \in dirs]]

\* The root directory and the keep marker.
InitRoot(environ, dirs, root_directory, w) ==
  IF root_directory = None
  THEN [environ |-> environ, fs |-> dirs \cup {w.tmp}, steps |-> <<"mkdtemp">>,
        init |-> [root |-> w.tmp, given |-> FALSE, existed |-> FALSE]]
  ELSE IF root_directory \notin dirs
  THEN [environ |-> environ, fs |-> dirs \cup {root_directory},
        steps |-> <<"makedirs">>,
        init |-> [root |-> root_directory, given |-> TRUE, existed |-> FALSE]]
  ELSE [environ |-> Put(environ, DRIVER_KEEP_LOCATION_ENV, "True"),
        fs |-> dirs, steps |-> <<"keep">>,
        init |-> [root |-> root_directory, given |-> TRUE, existed |-> TRUE]]

InitRun(environ, dirs, sysexe, name, tar_location, components, root_directory, w) ==
  IF _IsOnWindows(name)
  THEN InitRaise(environ, dirs, "InitError", "not Windows compatible", <<>>,
                 NoOrigin)
  ELSE IF AlreadyInitialized(environ)
  THEN InitRaise(environ, dirs, "InitError", "already initialized", <<>>,
                 NoOrigin)
  ELSE
    LET location == IF tar_location = None THEN RELEASE_TAR ELSE tar_location
        r == InitRoot(environ, dirs, root_directory, w)
        dl == DownloadTarOutcome(location, w)
        up == UnpackTarOutcome(w)
        env == InstallerEnv(r.environ, sysexe, up.snapshot_url)
        s2 == r.steps \o <<"DownloadTar">>
        s3 == s2 \o <<"UnpackTar">>
    IN IF dl # NoError
       THEN InitRaise(r.environ, r.fs, dl, "downloading", s2, r.init)
       ELSE IF up.err # NoError
       THEN InitRaise(r.environ, r.fs, up.err, "extracting", s3, r.init)
       ELSE IF PYTHON_ENV \notin DOMAIN env
       THEN InitRaise(r.environ, r.fs, "InitError", "no python", s3, r.init)
       ELSE IF /\ ComponentsTruthy(components)
               /\ components.kind = "str"
       THEN [InitRaise(r.environ, r.fs, "InitError",
                       "components must be an iterable", s3, r.init) EXCEPT
               !.components = components]
       ELSE [InitFinish(r.environ, r.fs, s3, r.init, w) EXCEPT
               !.env = env,
               !.command = InstallerCommand(r.init.root, components),
               !.components = components,
               !.snapshot_url = up.snapshot_url]

\* ------------------------------------------------------------------------
\* SDK.RunInitializationCommands and the SDK factories.
\* ------------------------------------------------------------------------
MaxCommands == 3   \* position of the first gcloud command that may fail

RECURSIVE Join(_)
Join(tokens) ==
  IF tokens = <<>> THEN ""
  ELSE IF Len(tokens) = 1 THEN tokens[1]
  ELSE tokens[1] \o " " \o Join(Tail(tokens))

\* dict.items(): the items in the dictionary's (fixed) iteration order
RECURSIVE Items(_)
Items(d) ==
  IF DOMAIN d = {} THEN <<>>
  ELSE LET k == CHOOSE x \in DOMAIN d : TRUE
       IN <<<<k, d[k]>>>> \o Items(Pop(d, k))

RECURSIVE PropertyCommands(_)
PropertyCommands(items) ==
  IF items = <<>> THEN <<>>
  ELSE <<<<"config", "set", items[1][1], items[1][2]>>>>
       \o PropertyCommands(Tail(items))

\* Variant: the project is set before the service account is activated.
InitializationCommands_project_first(cfg) ==
  (IF Truthy(cfg.project)
   THEN <<<<"config", "set", "project", cfg.project>>>>
   ELSE <<>>)
  \o (IF Truthy(cfg.service_account_keyfile)
      THEN <<<<"auth", "activate-service-account">>
             \o (IF Truthy(cfg.service_account_email)
                 THEN <<cfg.service_account_email>> ELSE <<>>)
             \o <<"--key-file", cfg.service_account_keyfile>>>>
      ELSE <<>>)
  \o (IF DOMAIN cfg.properties # {}
      THEN PropertyCommands(Items(cfg.properties))
      ELSE <<>>)

\* The gcloud commands RunInitializationCommands issues when none fails.
InitializationCommands(cfg) ==
  (IF Truthy(cfg.service_account_keyfile)
   THEN <<<<"auth", "activate-service-account">>
          \o (IF Truthy(cfg.service_account_email)
              THEN <<cfg.service_account_email>> ELSE <<>>)
          \o <<"--key-file", cfg.service_account_keyfile>>>>
   ELSE <<>>)
  \o (IF Truthy(cfg.project)
      THEN <<<<"config", "set", "project", cfg.project>>>>
      ELSE <<>>)
  \o (IF DOMAIN cfg.properties # {}
      THEN PropertyCommands(Items(cfg.properties))
      ELSE <<>>)

\* RunGcloudRawOutput(command) as the command line Popen is given.
GcloudCommandLine(command) == Join(<<"gcloud">> \o command)

\* Runs the commands in order; the one at position fail_at (if any) exits
\* non-zero and HandlePossibleError raises SDKError.
RunInitializationCommands(cfg, fail_at) ==
  LET cmds == InitializationCommands(cfg)
      n == IF fail_at \in 1..Len(cmds) THEN fail_at ELSE Len(cmds)
  IN [err |-> IF fail_at \in 1..Len(cmds)
              THEN HandlePossibleError(1, "SDKError") ELSE NoError,
      steps |-> [i \in 1..n |-> GcloudCommandLine(cmds[i])]]

\* Variant: the factory does not look for the installation record.
DriverLocationMissing_never(environ) == FALSE

DriverLocationMissing(environ) == Get(environ, DRIVER_LOCATION_ENV) = None

\* PrepareEnviron's check for a Python interpreter.
PrepareEnvironOutcome(user_environ, sysexe) ==
  IF PYTHON_ENV \notin DOMAIN user_environ /\ ~Truthy(sysexe)
  THEN "SDKError" ELSE NoError

os_pathsep == ":"
os_path_join(a, b) == a \o "/" \o b
sys_path == <<"sys_path">>
\* the name SDKFromConfig draws with random.SystemRandom
config_name == "configxxxxxxxx"

RECURSIVE JoinWith(_, _)
JoinWith(sep, tokens) ==
  IF tokens = <<>> THEN ""
  ELSE IF Len(tokens) = 1 THEN tokens[1]
  ELSE tokens[1] \o sep \o JoinWith(sep, Tail(tokens))

\* a in b, for strings
IsSubstring(a, b) ==
  \E i \in 0..(Len(b) - Len(a)) : SubSeq(b, i + 1, i + Len(a)) = a

\* text.split(sep) for a one-character separator
RECURSIVE SplitOn(_, _)
SplitOn(sep, text) ==
  IF \A i \in 1..Len(text) : SubSeq(text, i, i) # sep THEN <<text>>
  ELSE LET i == CHOOSE i \in 1..Len(text) :
                  /\ SubSeq(text, i, i) = sep
                  /\ \A j \in 1..(i - 1) : SubSeq(text, j, j) # sep
       IN <<SubSeq(text, 1, i - 1)>>
          \o SplitOn(sep, SubSeq(text, i + 1, Len(text)))

\* _config.PrepareEnviron, the PATH: the SDK's bin folder, the caller's
\* PATH, and the host PATH unless the caller's PATH contains it.
PathComponents(bin_folder, user_environ, host_path) ==
  <<bin_folder>>
  \o (IF "PATH" \in DOMAIN user_environ THEN <<user_environ["PATH"]>>
      ELSE <<>>)
  \o (IF \/ "PATH" \notin DOMAIN user_environ
         \/ ~IsSubstring(host_path, user_environ["PATH"])
      THEN <<host_path>> ELSE <<>>)

\* Variant: without a CLOUDSDK_PYTHON of the caller the one of the host
\* environment is taken before sys.executable.
PrepareEnviron_host_python(user_environ, name, sdk_dir, host_environ, sysexe) ==
  IF "PATH" \notin DOMAIN host_environ
  THEN [err |-> "KeyError", environ |-> EmptyMap]
  ELSE LET e1 == Put(user_environ, "PATH",
                     JoinWith(os_pathsep,
                              PathComponents(os_path_join(sdk_dir, BIN_FOLDER),
                                             user_environ,
                                             host_environ["PATH"])))
           e2 == Put(e1, CONFIG_ENV, os_path_join(sdk_dir, name))
           e3 == IF PYTHON_ENV \in DOMAIN e2 THEN e2
                 ELSE IF PYTHON_ENV \in DOMAIN host_environ
                 THEN Put(e2, PYTHON_ENV, host_environ[PYTHON_ENV])
                 ELSE Put(e2, PYTHON_ENV, sysexe)
           e4 == Put(e3, PYTHON_PATH,
                     IF PYTHON_PATH \notin DOMAIN e3
                     THEN JoinWith(os_pathsep, sys_path)
                     ELSE JoinWith(os_pathsep, <<e3[PYTHON_PATH]>> \o sys_path))
       IN IF /\ PYTHON_ENV \notin DOMAIN user_environ
             /\ PYTHON_ENV \notin DOMAIN host_environ
             /\ ~Truthy(sysexe)
          THEN [err |-> "SDKError", environ |-> EmptyMap]
          ELSE [err |-> NoError, environ |-> e4]

\* _config.PrepareEnviron: the error it raises, if any, and the environment
\* it returns; the caller's dictionary is copied first and left alone.
PrepareEnviron(user_environ, name, sdk_dir, host_environ, sysexe) ==
  IF "PATH" \notin DOMAIN host_environ
  THEN [err |-> "KeyError", environ |-> EmptyMap]
  ELSE LET e1 == Put(user_environ, "PATH",
                     JoinWith(os_pathsep,
                              PathComponents(os_path_join(sdk_dir, BIN_FOLDER),
                                             user_environ,
                                             host_environ["PATH"])))
           e2 == Put(e1, CONFIG_ENV, os_path_join(sdk_dir, name))
           e3 == IF PYTHON_ENV \notin DOMAIN e2
                 THEN Put(e2, PYTHON_ENV, sysexe) ELSE e2
           e4 == Put(e3, PYTHON_PATH,
                     IF PYTHON_PATH \notin DOMAIN e3
                     THEN JoinWith(os_pathsep, sys_path)
                     ELSE JoinWith(os_pathsep, <<e3[PYTHON_PATH]>> \o sys_path))
       IN IF PrepareEnvironOutcome(user_environ, sysexe) # NoError
          THEN [err |-> PrepareEnvironOutcome(user_environ, sysexe),
                environ |-> EmptyMap]
          ELSE [err |-> NoError, environ |-> e4]

\* The SDK object: its ImmutableConfig and the private fields, with the
\* environment it was constructed with kept for comparison (env0).
NoSDK ==
  [made |-> FALSE, config |-> DEFAULT_CONFIG, _sdk_dir |-> None,
   _config_name |-> None, _env |-> EmptyMap, env0 |-> EmptyMap,
   user_environ |-> EmptyMap, host_path |-> None, overlaid |-> FALSE]

SDK__init__(cfg, sdk_dir, name, environ) ==
  IF Validate(cfg) # NoError
  THEN [err |-> Validate(cfg), sdk |-> NoSDK]
  ELSE [err |-> NoError,
        sdk |-> [made |-> TRUE, config |-> cfg, _sdk_dir |-> sdk_dir,
                 _config_name |-> name, _env |-> environ, env0 |-> environ,
                 user_environ |-> cfg.environment_variables,
                 host_path |-> None, overlaid |-> FALSE]]

SDKFromConfig(environ, sysexe, cfg, fail_at) ==
  IF DriverLocationMissing(environ)
  THEN [err |-> "SDKError", steps |-> <<>>, handle |-> FALSE,
        config_err |-> NoError, sdk |-> NoSDK, ran |-> FALSE]
  ELSE LET driver_location == Get(environ, DRIVER_LOCATION_ENV)
           sdk_dir == os_path_join(driver_location, SDK_FOLDER)
           p == PrepareEnviron(cfg.environment_variables, config_name,
                               sdk_dir, environ, sysexe)
           o == SDK__init__(cfg, sdk_dir, config_name, p.environ)
           r == RunInitializationCommands(cfg, fail_at)
       IN IF p.err # NoError
          THEN [err |-> p.err, steps |-> <<>>, handle |-> FALSE,
                config_err |-> NoError, sdk |-> NoSDK, ran |-> FALSE]
          ELSE IF o.err # NoError
          THEN [err |-> o.err, steps |-> <<>>, handle |-> FALSE,
                config_err |-> NoError, sdk |-> NoSDK, ran |-> FALSE]
          ELSE [err |-> r.err, steps |-> r.steps, handle |-> r.err = NoError,
                config_err |-> NoError,
                sdk |-> IF r.err = NoError
                        THEN [o.sdk EXCEPT !.host_path = environ["PATH"]]
                        ELSE NoSDK,
                ran |-> TRUE]

\* DefaultSDK, SDKFromFile, SDKFromDict, SDKFromArgs: the Config is built
\* first (the argument of the call to SDKFromConfig), then handed over.
SDKFromNewConfig(environ, sysexe, filename, kwargs, fail_at) ==
  LET c == Config__init__(filename, kwargs)
  IN IF c.err # NoError
     THEN [err |-> c.err, steps |-> <<>>, handle |-> FALSE,
           config_err |-> c.err, sdk |-> NoSDK, ran |-> FALSE]
     ELSE SDKFromConfig(environ, sysexe, c.dict, fail_at)

DefaultSDK(environ, sysexe, fail_at) ==
  SDKFromNewConfig(environ, sysexe, None, EmptyMap, fail_at)
SDKFromFile(environ, sysexe, filename, fail_at) ==
  SDKFromNewConfig(environ, sysexe, filename, EmptyMap, fail_at)
SDKFromDict(environ, sysexe, dictionary, fail_at) ==
  SDKFromNewConfig(environ, sysexe, None, dictionary, fail_at)
SDKFromArgs(environ, sysexe, kwargs, fail_at) ==
  SDKFromNewConfig(environ, sysexe, None, kwargs, fail_at)

\* Manager: the exception its caller sees when the body ended with exc and
\* the finally clause has run Destroy.
ManagerPropagates_swallow(exc) == NoError

ManagerPropagates(exc) == exc

\* The Config objects SDKFromConfig is tried with.
FactoryConfigs ==
  {Config__init__(None, o).dict :
     o \in {x \in Overlays : Config__init__(None, x).err = NoError}}
  \cup {Config__setattr__(DEFAULT_CONFIG, "environment_variables",
                          [CLOUDSDK_CONFIG |-> "foo"]).dict,
        Config__setattr__(DEFAULT_CONFIG, "environment_variables",
                          [CLOUDSDK_PYTHON |-> "my_python"]).dict}

\* ------------------------------------------------------------------------
\* The lifecycle as a state machine: calls of Init, Destroy, Manager and
\* the SDK factories in any order.
\* ------------------------------------------------------------------------
NoCall ==
  [op |-> "none", err |-> NoError, why |-> "", steps |-> <<>>,
   pre |-> EmptyMap, prefs |-> {}, init |-> NoOrigin, rec |-> NoOrigin,
   handle |-> FALSE, exc |-> NoError, env |-> EmptyMap, command |-> <<>>,
   components |-> NoComponents, snapshot_url |-> None]

Call(op, err, why, steps, init, handle, exc) ==
  [op |-> op, err |-> err, why |-> why, steps |-> steps,
   pre |-> os_environ, prefs |-> fs, init |-> init, rec |-> origin,
   handle |-> handle, exc |-> exc, env |-> EmptyMap, command |-> <<>>,
   components |-> NoComponents, snapshot_url |-> None]

\* An Init call: the URL UnpackTar returned, the additional_components
\* Init looked at and the environment and the command the installer was
\* started with are kept as well.
InitCalled(op, r, steps, exc) ==
  [Call(op, IF op = "Manager" THEN ManagerPropagates(r.err) ELSE r.err,
        r.why, steps, r.init, FALSE, exc)
     EXCEPT !.env = r.env, !.command = r.command,
            !.components = r.components, !.snapshot_url = r.snapshot_url]

\* tempfile.mkdtemp creates a directory that did not exist; which of the
\* unused names it takes makes no difference, so it takes the first.
FreeTmp == {i \in 1..MaxTmp : TmpNames[i] \notin fs}
WorldFor(root_directory) ==
  {w \in Worlds :
     IF root_directory = None
     THEN /\ FreeTmp # {}
          /\ w.tmp = TmpNames[CHOOSE i \in FreeTmp : \A j \in FreeTmp : i <= j]
     ELSE w.tmp = TmpNames[1]}

\* The arguments of Init that make a difference: the tar location decides
\* only which error a failed download raises, and additional_components is
\* looked at only after the tar was unpacked.
InitInput(tar_location, additional_components, w) ==
  /\ w.download = "ok" => tar_location = None
  /\ (w.download # "ok" \/ w.unpack # "ok") =>
       additional_components = NoComponents

LifecycleInit ==
  /\ os_environ \in {HostEnviron,
                      Put(Put(HostEnviron, PYTHON_ENV, "env_python"),
                          SNAPSHOT_ENV, HostSnapshot)}
  /\ fs \in SUBSET CallerDirs
  /\ sys_executable \in {None, "sys_python"}
  /\ os_name \in {"posix", "nt"}
  /\ os_name = "nt" => (os_environ = HostEnviron /\ sys_executable # None)
  /\ scopes = 0
  /\ origin = NoOrigin
  /\ torn_down = FALSE
  /\ last = NoCall

InitCall ==
  \E tar_location \in TarLocations, additional_components \in ComponentArgs,
     root_directory \in {None} \cup CallerDirs :
    \E w \in {x \in WorldFor(root_directory) :
                InitInput(tar_location, additional_components, x)} :
      \E r \in {InitRun(os_environ, fs, sys_executable, os_name,
                       tar_location, additional_components, root_directory,
                       w)} :
         /\ os_environ' = r.environ
         /\ fs' = r.fs
         /\ origin' = IF r.err = NoError THEN r.init ELSE origin
         /\ last' = InitCalled("Init", r, r.steps, NoError)
         /\ UNCHANGED <<sys_executable, os_name, scopes, torn_down>>
         /\ UNCHANGED config_vars
         /\ UNCHANGED object_vars

DestroyCall ==
  LET d == DestroyRun(os_environ, fs)
  IN /\ os_environ' = d.environ
     /\ fs' = d.fs
     /\ origin' = NoOrigin
     /\ torn_down' = (torn_down \/ AlreadyInitialized(os_environ))
     /\ last' = Call("Destroy", NoError, "", d.steps, NoOrigin, FALSE, NoError)
     /\ UNCHANGED <<sys_executable, os_name, scopes>>
     /\ UNCHANGED config_vars
     /\ UNCHANGED object_vars

\* with Manager(...): Init succeeded and the body starts.
ManagerEnter ==
  /\ scopes < MaxScopes
  /\ \E tar_location \in TarLocations, additional_components \in ComponentArgs,
        root_directory \in {None} \cup CallerDirs :
       \E w \in {x \in WorldFor(root_directory) :
                   InitInput(tar_location, additional_components, x)} :
         \E r \in {InitRun(os_environ, fs, sys_executable, os_name,
                          tar_location, additional_components,
                          root_directory, w)} :
            /\ r.err = NoError
            /\ os_environ' = r.environ
            /\ fs' = r.fs
            /\ origin' = r.init
            /\ scopes' = scopes + 1
            /\ last' = InitCalled("ManagerEnter", r, r.steps, NoError)
            /\ UNCHANGED <<sys_executable, os_name, torn_down>>
            /\ UNCHANGED config_vars
            /\ UNCHANGED object_vars

\* with Manager(...): Init raised, the finally clause runs Destroy and the
\* error goes to the caller; the body never runs.
ManagerFailed ==
  \E tar_location \in TarLocations, additional_components \in ComponentArgs,
     root_directory \in {None} \cup CallerDirs :
    \E w \in {x \in WorldFor(root_directory) :
                InitInput(tar_location, additional_components, x)} :
      \E r \in {InitRun(os_environ, fs, sys_executable, os_name,
                       tar_location, additional_components, root_directory,
                       w)} :
       \E d \in {DestroyRun(r.environ, r.fs)} :
         /\ r.err # NoError
         /\ os_environ' = d.environ
         /\ fs' = d.fs
         /\ origin' = NoOrigin
         /\ torn_down' = (torn_down \/ AlreadyInitialized(r.environ))
         /\ last' = InitCalled("Manager", r, r.steps \o d.steps, r.err)
         /\ UNCHANGED <<sys_executable, os_name, scopes>>
         /\ UNCHANGED config_vars
         /\ UNCHANGED object_vars

\* The body of a Manager scope ends, normally or with an exception.
ManagerExit ==
  /\ scopes > 0
  /\ \E exc \in {NoError, "BodyError"} :
       LET d == DestroyRun(os_environ, fs)
       IN /\ os_environ' = d.environ
          /\ fs' = d.fs
          /\ origin' = NoOrigin
          /\ torn_down' = (torn_down \/ AlreadyInitialized(os_environ))
          /\ scopes' = scopes - 1
          /\ last' = Call("ManagerExit", ManagerPropagates(exc), "", d.steps,
                          NoOrigin, FALSE, exc)
          /\ UNCHANGED <<sys_executable, os_name>>
          /\ UNCHANGED config_vars
          /\ UNCHANGED object_vars

\* The caller removes the recorded root directory itself (shutil.rmtree in a
\* test's cleanup) while the record still names it.
CallerRemovesDirectory ==
  \E directory \in fs :
    /\ AlreadyInitialized(os_environ)
    /\ directory = os_environ[DRIVER_LOCATION_ENV]
    /\ fs' = fs \ {directory}
    /\ last' = Call("rmtree", NoError, "", <<>>, NoOrigin, FALSE, NoError)
    /\ UNCHANGED <<os_environ, sys_executable, os_name, scopes, origin,
                   torn_down>>
    /\ UNCHANGED config_vars
    /\ UNCHANGED object_vars

Factory(op, r) ==
  /\ last' = Call(op, r.err, r.config_err, r.steps, NoOrigin, r.handle,
                  NoError)
  /\ UNCHANGED <<os_environ, fs, sys_executable, os_name, scopes, origin,
                 torn_down>>
  /\ UNCHANGED config_vars
  /\ UNCHANGED object_vars

SDKFromConfigCall ==
  \E cfg \in FactoryConfigs, fail_at \in 0..MaxCommands :
    Factory("SDKFromConfig",
            SDKFromConfig(os_environ, sys_executable, cfg, fail_at))

DefaultSDKCall ==
  \E fail_at \in 0..MaxCommands :
    Factory("DefaultSDK", DefaultSDK(os_environ, sys_executable, fail_at))

SDKFromFileCall ==
  \E filename \in YamlFiles, fail_at \in 0..MaxCommands :
    Factory("SDKFromFile",
            SDKFromFile(os_environ, sys_executable, filename, fail_at))

SDKFromDictCall ==
  \E dictionary \in Overlays, fail_at \in 0..MaxCommands :
    Factory("SDKFromDict",
            SDKFromDict(os_environ, sys_executable, dictionary, fail_at))

SDKFromArgsCall ==
  \E kwargs \in Overlays, fail_at \in 0..MaxCommands :
    Factory("SDKFromArgs",
            SDKFromArgs(os_environ, sys_executable, kwargs, fail_at))

\* ------------------------------------------------------------------------
\* The Config object as a state machine: construction, LoadFile and
\* assignment by attribute and by item.
\* ------------------------------------------------------------------------
NoConfigCall ==
  [op |-> "none", err |-> NoError, pre |-> DEFAULT_CONFIG, asked |-> {},
   filename |-> None, kwargs |-> EmptyMap]

ConfigInit ==
  /\ config = Config__init__(None, EmptyMap).dict
  /\ cfg_last = NoConfigCall

\* config = Config(filename, **kwargs); when the constructor raises, the
\* name still refers to the previous object.
NewConfig ==
  \E filename \in {None} \cup YamlFiles, kwargs \in Overlays :
    LET r == Config__init__(filename, kwargs)
    IN /\ config' = IF r.err = NoError THEN r.dict ELSE config
       /\ cfg_last' = [op |-> "Config", err |-> r.err, pre |-> config,
                       asked |-> r.asked, filename |-> filename,
                       kwargs |-> kwargs]
       /\ UNCHANGED lifecycle_vars
       /\ UNCHANGED object_vars

LoadFileCall ==
  \E filename \in YamlFiles :
    LET r == LoadFile(config, filename)
    IN /\ config' = r.dict
       /\ cfg_last' = [op |-> "LoadFile", err |-> r.err, pre |-> config,
                       asked |-> r.asked, filename |-> filename,
                       kwargs |-> EmptyMap]
       /\ UNCHANGED lifecycle_vars
       /\ UNCHANGED object_vars

SetAttr ==
  \E name \in AttrNames :
    \E value \in ValuesFor(name) :
      LET r == Config__setattr__(config, name, value)
      IN /\ config' = r.dict
         /\ cfg_last' = [op |-> "setattr", err |-> r.err, pre |-> config,
                         asked |-> r.asked, filename |-> None,
                         kwargs |-> Put(EmptyMap, name, value)]
         /\ UNCHANGED lifecycle_vars
         /\ UNCHANGED object_vars

SetItem ==
  \E key \in AttrNames :
    \E value \in ValuesFor(key) :
      LET r == Config__setitem__(config, key, value)
      IN /\ config' = r.dict
         /\ cfg_last' = [op |-> "setitem", err |-> r.err, pre |-> config,
                         asked |-> r.asked, filename |-> None,
                         kwargs |-> Put(EmptyMap, key, value)]
         /\ UNCHANGED lifecycle_vars
         /\ UNCHANGED object_vars

\* ------------------------------------------------------------------------
\* _config.ImmutableConfig. Python dictionaries are objects: the nested
\* mappings environment_variables and properties live in a heap, a __dict__
\* holds references to them, and a mapping keeps its items in insertion
\* order.
\* ------------------------------------------------------------------------
RefNames == <<"@1", "@2", "@3", "@4", "@5", "@6", "@7", "@8">>
NestedKeys == {"environment_variables", "properties"}
NoObject == EmptyMap
Slots == {1, 2}

ItemKeys(items) == {items[i][1] : i \in DOMAIN items}
ItemValue(items, k) == items[CHOOSE i \in DOMAIN items : items[i][1] = k][2]
AsMap(items) == [k \in ItemKeys(items) |-> ItemValue(items, k)]
\* mapping[k] = v: a present key keeps its place, a new key goes last
SetItemIn(items, k, v) ==
  IF k \in ItemKeys(items)
  THEN [i \in DOMAIN items |-> IF items[i][1] = k THEN <<k, v>> ELSE items[i]]
  ELSE Append(items, <<k, v>>)

RefsOf(d) == {d[k] : k \in (DOMAIN d) \cap NestedKeys}
\* the n-th reference no live object uses
RECURSIVE Fresh(_, _)
Fresh(live, n) ==
  LET i == CHOOSE i \in DOMAIN RefNames :
             /\ RefNames[i] \notin live
             /\ \A j \in 1..(i - 1) : RefNames[j] \in live
  IN IF n = 1 THEN RefNames[i] ELSE Fresh(live \cup {RefNames[i]}, n - 1)

\* what is read through an object: its values with the nested mappings in
\* place of their references
Deref(h, d) == [k \in DOMAIN d |-> IF k \in NestedKeys THEN h[d[k]] ELSE d[k]]
Content(h, d) ==
  [k \in DOMAIN d |-> IF k \in NestedKeys THEN AsMap(h[d[k]]) ELSE d[k]]

\* copy.deepcopy(dictionary): new mapping objects with the same items; live
\* are the references in use.
deepcopy(h, live, dictionary) ==
  LET e == Fresh(live, 1)
      p == Fresh(live, 2)
  IN [dict |-> [k \in DOMAIN dictionary |->
                  IF k = "environment_variables" THEN e
                  ELSE IF k = "properties" THEN p
                  ELSE dictionary[k]],
      heap |-> [r \in {e, p} |->
                  IF r = e THEN h[dictionary["environment_variables"]]
                  ELSE h[dictionary["properties"]]]]

\* Variant: the dictionary is not copied, the nested mappings are shared.
BaseConfig_UpdateDict_shallow(h, live, self_dict, dictionary) ==
  IF \E key \in DOMAIN dictionary : key \notin DOMAIN DEFAULT_CONFIG
  THEN [err |-> RaiseInvalidKey(CHOOSE key \in DOMAIN dictionary :
                                  key \notin DOMAIN DEFAULT_CONFIG),
        dict |-> self_dict, heap |-> EmptyMap]
  ELSE [err |-> NoError, dict |-> Update(self_dict, dictionary),
        heap |-> EmptyMap]

\* BaseConfig._UpdateDict on objects: the result is the error, the __dict__
\* afterwards and the mapping objects it created.
BaseConfig_UpdateDict(h, live, self_dict, dictionary) ==
  IF \E key \in DOMAIN dictionary : key \notin DOMAIN DEFAULT_CONFIG
  THEN [err |-> RaiseInvalidKey(CHOOSE key \in DOMAIN dictionary :
                                  key \notin DOMAIN DEFAULT_CONFIG),
        dict |-> self_dict, heap |-> EmptyMap]
  ELSE LET c == deepcopy(h, live, dictionary)
       IN [err |-> NoError, dict |-> Update(self_dict, c.dict),
           heap |-> c.heap]

ImmutableConfig__init__(h, live, config_dict) ==
  BaseConfig_UpdateDict(h, live, EmptyMap, config_dict)

\* Variant: the assignment is silently ignored.
ImmutableConfig__setattr___ignored(self_dict, unused_name, unused_value) ==
  [err |-> NoError, dict |-> self_dict]

ImmutableConfig__setattr__(self_dict, unused_name, unused_value) ==
  [err |-> "ConfigError", dict |-> self_dict]
ImmutableConfig__setitem__(self_dict, unused_key, unused_value) ==
  [err |-> "ConfigError", dict |-> self_dict]

\* json.dumps(obj, sort_keys): the text, for the values a Config holds.
\* KeyOrder lists the keys in the order sorted() gives them.
KeyOrder ==
  <<"BAR", "CLOUDSDK_CORE_DISABLE_PROMPTS", "FOO", "core/account", "environment_variables", "project",
    "properties", "service_account_email", "service_account_keyfile">>
Rank(k) == CHOOSE i \in DOMAIN KeyOrder : KeyOrder[i] = k
RECURSIVE SortedItems(_)
SortedItems(items) ==
  IF items = <<>> THEN <<>>
  ELSE LET i == CHOOSE i \in DOMAIN items :
                  \A j \in DOMAIN items : Rank(items[i][1]) <= Rank(items[j][1])
       IN <<items[i]>>
          \o SortedItems([j \in 1..(Len(items) - 1) |->
                            IF j < i THEN items[j] ELSE items[j + 1]])

json_string(v) == IF v = None THEN "null" ELSE "\"" \o v \o "\""
RECURSIVE json_items(_)
json_items(items) ==
  IF items = <<>> THEN ""
  ELSE json_string(items[1][1]) \o ": " \o items[1][2]
       \o (IF Len(items) > 1 THEN ", " ELSE "") \o json_items(Tail(items))
json_mapping(items, sort_keys) ==
  "{" \o json_items([i \in DOMAIN items |->
                      <<items[i][1], json_string(items[i][2])>>]) \o "}"
json_dumps(h, d, sort_keys) ==
  LET top == [i \in 1..Cardinality(DOMAIN d) |->
                LET k == CHOOSE k \in DOMAIN d :
                           Cardinality({x \in DOMAIN d : Rank(x) < Rank(k)})
                             = i - 1
                IN <<k, IF k \in NestedKeys
                        THEN json_mapping(IF sort_keys
                                          THEN SortedItems(h[d[k]])
                                          ELSE h[d[k]], sort_keys)
                        ELSE json_string(d[k])>>]
  IN "{" \o json_items(top) \o "}"

\* Variant: the keys are not sorted.
_Key_unsorted(h, self_dict) == json_dumps(h, self_dict, FALSE)

_Key(h, self_dict) == json_dumps(h, self_dict, TRUE)

\* hashlib.md5(text).hexdigest() read as a number: a digest of the text,
\* here over its length and every eighth character.
Alphabet ==
  "{}:,/_ \"abcdefghijklmnopqrstuvwxyzABCDEFGHIJKLMNOPQRSTUVWXYZ0123456789"
Code(c) == CHOOSE i \in 1..Len(Alphabet) : SubSeq(Alphabet, i, i) = c
RECURSIVE md5_from(_, _)
md5_from(text, i) ==
  IF i > Len(text) THEN Len(text)
  ELSE (31 * md5_from(text, i + 8) + Code(SubSeq(text, i, i))) % 65536
md5(text) == md5_from(text, 1)

ImmutableConfig__hash__(h, self_dict) == md5(_Key(h, self_dict))
ImmutableConfig__eq__(h, self_dict, other_dict) ==
  _Key(h, self_dict) = _Key(h, other_dict)

\* The values the nested mappings and the scalars are given.
FrozenEnvItems == {<<<<"CLOUDSDK_CORE_DISABLE_PROMPTS", "1">>>>}
FrozenPropItems == {<<>>}
FrozenItemsFor(name) ==
  IF name = "environment_variables" THEN FrozenEnvItems ELSE FrozenPropItems
FrozenNestedSets ==
  {<<"environment_variables", "FOO", "x">>,
   <<"environment_variables", "BAR", "x">>,
   <<"properties", "core/account", "x">>}
FrozenScalars == {None, "foo"}
FrozenScalarKeys == {"project"}

FrozenIdle ==
  /\ heap = [r \in {"@1", "@2"} |->
              IF r = "@1" THEN <<<<"CLOUDSDK_CORE_DISABLE_PROMPTS", "1">>>>
              ELSE <<>>]
  /\ cfg_obj = [k \in DOMAIN DEFAULT_CONFIG |->
                  IF k = "environment_variables" THEN "@1"
                  ELSE IF k = "properties" THEN "@2"
                  ELSE DEFAULT_CONFIG[k]]
  /\ frozen = [i \in Slots |-> NoObject]
  /\ frozen_seen = [i \in Slots |-> NoObject]
  /\ frz_last = [op |-> "none", err |-> NoError, slot |-> 0]

\* Only the objects something refers to are kept.
Live(c, f) == RefsOf(c) \cup UNION {RefsOf(f[i]) : i \in Slots}
Collect(h, c, f) == [r \in Live(c, f) |-> h[r]]

\* frozen[slot] = ImmutableConfig(config); the first one made takes slot 1.
FreezeCall ==
  \E slot \in {i \in Slots : i = 1 \/ frozen[1] # NoObject} :
    LET live == RefsOf(cfg_obj) \cup RefsOf(frozen[3 - slot])
        r == ImmutableConfig__init__(heap, live, cfg_obj)
        f == [frozen EXCEPT ![slot] = r.dict]
    IN /\ r.err = NoError
       /\ frozen' = f
       /\ heap' = Collect(Update(heap, r.heap), cfg_obj, f)
       /\ frozen_seen' = [frozen_seen EXCEPT ![slot] = Deref(heap, cfg_obj)]
       /\ frz_last' = [op |-> "ImmutableConfig", err |-> r.err, slot |-> slot]
       /\ UNCHANGED cfg_obj
       /\ UNCHANGED <<lifecycle_vars, config_vars, handle_vars, tar_vars,
                       environ_vars>>

\* config.<name> = value, where value is a new mapping or a scalar
ConfigAssign ==
  \/ \E name \in NestedKeys : \E items \in FrozenItemsFor(name) :
       LET live == (RefsOf(cfg_obj) \ {cfg_obj[name]})
                     \cup UNION {RefsOf(frozen[i]) : i \in Slots}
           ref == Fresh(live, 1)
           r == Config__setattr__(cfg_obj, name, ref)
       IN /\ cfg_obj' = r.dict
          /\ heap' = Collect(Put(heap, ref, items), r.dict, frozen)
          /\ frz_last' = [op |-> "assign", err |-> r.err, slot |-> 0]
          /\ UNCHANGED <<frozen, frozen_seen>>
          /\ UNCHANGED <<lifecycle_vars, config_vars, handle_vars, tar_vars,
                       environ_vars>>
  \/ \E name \in FrozenScalarKeys, value \in FrozenScalars :
       LET r == Config__setattr__(cfg_obj, name, value)
       IN /\ cfg_obj' = r.dict
          /\ frz_last' = [op |-> "assign", err |-> r.err, slot |-> 0]
          /\ UNCHANGED <<heap, frozen, frozen_seen>>
          /\ UNCHANGED <<lifecycle_vars, config_vars, handle_vars, tar_vars,
                       environ_vars>>

\* config.environment_variables[k] = v, config.properties[k] = v
ConfigNestedSet ==
  \E c \in FrozenNestedSets :
    /\ heap' = [heap EXCEPT ![cfg_obj[c[1]]] = SetItemIn(@, c[2], c[3])]
    /\ frz_last' = [op |-> "nested", err |-> NoError, slot |-> 0]
    /\ UNCHANGED <<cfg_obj, frozen, frozen_seen>>
    /\ UNCHANGED <<lifecycle_vars, config_vars, handle_vars, tar_vars,
                       environ_vars>>

\* immutable.<name> = value and immutable[key] = value
ImmutableAssign(op, slot, r) ==
  /\ frozen' = [frozen EXCEPT ![slot] = r.dict]
  /\ frz_last' = [op |-> op, err |-> r.err, slot |-> slot]
  /\ UNCHANGED <<heap, cfg_obj, frozen_seen>>
  /\ UNCHANGED <<lifecycle_vars, config_vars, handle_vars, tar_vars,
                       environ_vars>>

ImmutableSetAttr ==
  \E slot \in Slots, name \in FrozenScalarKeys \cup {"foo"},
     value \in FrozenScalars :
    /\ frozen[slot] # NoObject
    /\ ImmutableAssign("setattr", slot,
                       ImmutableConfig__setattr__(frozen[slot], name, value))

ImmutableSetItem ==
  \E slot \in Slots, key \in FrozenScalarKeys \cup {"foo"},
     value \in FrozenScalars :
    /\ frozen[slot] # NoObject
    /\ ImmutableAssign("setitem", slot,
                       ImmutableConfig__setitem__(frozen[slot], key, value))

\* ------------------------------------------------------------------------
\* The methods of an SDK object: Run, RunGcloudRawOutput, RunGcloud and
\* RunInitializationCommands. proc is what the started process does: its
\* stdout, stderr and exit code.
\* ------------------------------------------------------------------------
NoEnv == [kind |-> "None", value |-> EmptyMap]
EnvArgs ==
  {NoEnv,
   [kind |-> "dict", value |-> EmptyMap],
   [kind |-> "dict", value |-> [PYTHONPATH |-> "mine", FOO |-> "bar"]],
   [kind |-> "dict", value |-> [CLOUDSDK_CONFIG |-> "/home/me/gcloud"]]}
EnvTruthy(env) == env.kind = "dict" /\ DOMAIN env.value # {}

\* command arguments: a list, a tuple, a string, or something else
NoCommand == [kind |-> "None", items |-> <<>>, text |-> ""]
Commands ==
  {[kind |-> "list", items |-> <<"config", "list">>, text |-> ""],
   [kind |-> "tuple", items |-> <<"components", "list">>, text |-> ""],
   [kind |-> "str", items |-> <<>>, text |-> "config list"],
   [kind |-> "other", items |-> <<>>, text |-> ""]}

\* timeout arguments: None or a number of seconds
NoTimeout == [kind |-> "None", seconds |-> 0]
Timeouts == {NoTimeout, [kind |-> "number", seconds |-> 1]}

\* format_keys arguments: None, an empty list or a list of keys
NoKeys == [kind |-> "None", items |-> <<>>]
FormatKeys ==
  {NoKeys,
   [kind |-> "list", items |-> <<>>],
   [kind |-> "list", items |-> <<"name">>],
   [kind |-> "list", items |-> <<"x", "y">>]}
KeysTruthy(format_keys) == format_keys.items # <<>>

\* filters arguments: None or a string
Filters == {None, "", "bar"}

Stdouts ==
  {"", " ", "[]", "[1, 2]\n", "\"foo\"", "null", "not json", "[1, 2"}
Procs == [out : Stdouts, err : {"warning"}, returncode : {0, 1}]
PlainProcs == [out : {"out"}, err : {"", "warning"}, returncode : {0, 1}]

\* shlex.split(command, comments=True) for words separated by blanks
ShlexSplit(text) == SelectSeq(SplitOn(" ", text), LAMBDA word : word # "")

\* Variant: a value that is no string, list or tuple is an empty command.
_PrepareCommand_lenient(command) ==
  IF command.kind = "str"
  THEN [err |-> NoError, argv |-> ShlexSplit(command.text)]
  ELSE IF command.kind \in {"tuple", "list"}
  THEN [err |-> NoError, argv |-> command.items]
  ELSE [err |-> NoError, argv |-> <<>>]

\* The error raised, if any, and the list returned: list(command) is a new
\* list with the items of the caller's sequence.
_PrepareCommand(command) ==
  IF command.kind = "str"
  THEN [err |-> NoError, argv |-> ShlexSplit(command.text)]
  ELSE IF command.kind \in {"tuple", "list"}
  THEN [err |-> NoError, argv |-> command.items]
  ELSE [err |-> "SDKError", argv |-> <<>>]

NoRun ==
  [err |-> NoError, ran |-> FALSE, result |-> <<>>, argv |-> <<>>,
   timeout |-> NoTimeout, env |-> EmptyMap, self_env |-> EmptyMap,
   arg_env |-> NoEnv, arg_command |-> NoCommand]

\* Variant: the extra variables are stored in the handle's environment.
Run_update_base(self, command, timeout, env, proc) ==
  LET used == IF EnvTruthy(env) THEN Update(self._env, env.value)
              ELSE self._env
      c == _PrepareCommand(command)
  IN [err |-> c.err, ran |-> c.err = NoError,
      result |-> IF c.err = NoError
                 THEN <<proc.out, proc.err, proc.returncode>> ELSE <<>>,
      argv |-> c.argv, timeout |-> timeout, env |-> used, self_env |-> used,
      arg_env |-> env, arg_command |-> command]

\* Variant: a non-zero exit code is turned into an error (the TODO in Run).
Run_raise_on_failure(self, command, timeout, env, proc) ==
  LET used == IF EnvTruthy(env) THEN Update(self._env, env.value)
              ELSE self._env
      c == _PrepareCommand(command)
  IN [err |-> IF c.err # NoError THEN c.err
              ELSE HandlePossibleError(proc.returncode, "SDKError"),
      ran |-> c.err = NoError,
      result |-> IF c.err = NoError /\ proc.returncode = 0
                 THEN <<proc.out, proc.err, proc.returncode>> ELSE <<>>,
      argv |-> c.argv, timeout |-> timeout, env |-> used,
      self_env |-> self._env, arg_env |-> env, arg_command |-> command]

\* SDK.Run: the error raised, if any, the tuple returned, the command and
\* the environment Popen was given, the timeout communicate() is given, and
\* self._env, the env argument and the command argument as they are
\* afterwards.
Run(self, command, timeout, env, proc) ==
  LET used == IF EnvTruthy(env) THEN Update(self._env, env.value)
              ELSE self._env
      c == _PrepareCommand(command)
  IN [err |-> c.err, ran |-> c.err = NoError,
      result |-> IF c.err = NoError
                 THEN <<proc.out, proc.err, proc.returncode>> ELSE <<>>,
      argv |-> c.argv, timeout |-> timeout, env |-> used,
      self_env |-> self._env, arg_env |-> env, arg_command |-> command]

\* Variant: the filter flag is put before the format flag.
RunGcloudRawOutput_filter_first(self, command, formats, filters, timeout, env, proc) ==
  LET c == _PrepareCommand(command)
      argv == <<"gcloud">> \o c.argv
              \o (IF Truthy(filters) THEN <<"--filter=" \o filters>>
                  ELSE <<>>)
              \o (IF Truthy(formats) THEN <<"--format=" \o formats>>
                  ELSE <<>>)
  IN IF c.err # NoError
     THEN [NoRun EXCEPT !.err = c.err, !.self_env = self._env,
                        !.arg_env = env, !.arg_command = command]
     ELSE [Run(self, [kind |-> "list", items |-> argv, text |-> ""],
               timeout, env, proc) EXCEPT !.arg_command = command]

RunGcloudRawOutput(self, command, formats, filters, timeout, env, proc) ==
  LET c == _PrepareCommand(command)
      argv == <<"gcloud">> \o c.argv
              \o (IF Truthy(formats) THEN <<"--format=" \o formats>>
                  ELSE <<>>)
              \o (IF Truthy(filters) THEN <<"--filter=" \o filters>>
                  ELSE <<>>)
  IN IF c.err # NoError
     THEN [NoRun EXCEPT !.err = c.err, !.self_env = self._env,
                        !.arg_env = env, !.arg_command = command]
     ELSE [Run(self, [kind |-> "list", items |-> argv, text |-> ""],
               timeout, env, proc) EXCEPT !.arg_command = command]

\* json.loads for the texts a command prints: null, true, false, numbers
\* of digits, strings without escapes and lists of these, with blanks and
\* newlines around them. The value is given as a sequence of tokens; any
\* other text raises ValueError.
Whitespace == {" ", "\n"}
Digits == {"0", "1", "2", "3", "4", "5", "6", "7", "8", "9"}
RECURSIVE Strip(_)
Strip(text) ==
  IF Len(text) = 0 THEN text
  ELSE IF SubSeq(text, 1, 1) \in Whitespace
  THEN Strip(SubSeq(text, 2, Len(text)))
  ELSE IF SubSeq(text, Len(text), Len(text)) \in Whitespace
  THEN Strip(SubSeq(text, 1, Len(text) - 1))
  ELSE text
IsNumber(t) ==
  /\ Len(t) > 0
  /\ \A i \in 1..Len(t) : SubSeq(t, i, i) \in Digits
  /\ Len(t) > 1 => SubSeq(t, 1, 1) # "0"
IsQuoted(t) ==
  /\ Len(t) >= 2
  /\ SubSeq(t, 1, 1) = "\""
  /\ SubSeq(t, Len(t), Len(t)) = "\""
  /\ \A i \in 2..(Len(t) - 1) : SubSeq(t, i, i) \notin {"\"", "\\"}
IsScalar(t) == t \in {"null", "true", "false"} \/ IsNumber(t) \/ IsQuoted(t)
ScalarToken(t) ==
  IF IsNumber(t) THEN "int:" \o t
  ELSE IF IsQuoted(t) THEN "str:" \o SubSeq(t, 2, Len(t) - 1)
  ELSE t
json_loads(text) ==
  LET t == Strip(text)
      inner == Strip(SubSeq(t, 2, Len(t) - 1))
      parts == [i \in DOMAIN SplitOn(",", inner) |->
                  Strip(SplitOn(",", inner)[i])]
  IN IF IsScalar(t)
     THEN [err |-> NoError, value |-> <<ScalarToken(t)>>]
     ELSE IF /\ Len(t) >= 2
             /\ SubSeq(t, 1, 1) = "["
             /\ SubSeq(t, Len(t), Len(t)) = "]"
     THEN IF inner = ""
          THEN [err |-> NoError, value |-> <<"list">>]
          ELSE IF \A i \in DOMAIN parts : IsScalar(parts[i])
          THEN [err |-> NoError,
                value |-> <<"list">>
                          \o [i \in DOMAIN parts |-> ScalarToken(parts[i])]]
          ELSE [err |-> "ValueError", value |-> <<>>]
     ELSE [err |-> "ValueError", value |-> <<>>]

\* what RunGcloud returns first: None, the decoded value, or the raw text
NoneValue == <<"None">>
RawText(out) == <<"raw", out>>
Decoded(value) == <<"json">> \o value

\* Variant: output that is not JSON raises.
RunGcloud_raise_on_bad_json(self, command, format_keys, filters, timeout, env, proc) ==
  LET formats == IF KeysTruthy(format_keys)
                 THEN "json(" \o JoinWith(",", format_keys.items) \o ")"
                 ELSE "json"
      r == RunGcloudRawOutput(self, command, formats, filters, timeout, env,
                              proc)
  IN IF r.err # NoError THEN r
     ELSE IF r.result[1] = ""
     THEN [r EXCEPT !.result = <<NoneValue, r.result[2], r.result[3]>>]
     ELSE IF json_loads(r.result[1]).err = NoError
     THEN [r EXCEPT !.result = <<Decoded(json_loads(r.result[1]).value),
                                 r.result[2], r.result[3]>>]
     ELSE [r EXCEPT !.err = "SDKError", !.result = <<>>]

RunGcloud(self, command, format_keys, filters, timeout, env, proc) ==
  LET formats == IF KeysTruthy(format_keys)
                 THEN "json(" \o JoinWith(",", format_keys.items) \o ")"
                 ELSE "json"
      r == RunGcloudRawOutput(self, command, formats, filters, timeout, env,
                              proc)
  IN IF r.err # NoError THEN r
     ELSE IF r.result[1] # ""
     THEN IF json_loads(r.result[1]).err = NoError
          THEN [r EXCEPT !.result = <<Decoded(json_loads(r.result[1]).value),
                                      r.result[2], r.result[3]>>]
          ELSE [r EXCEPT !.result = <<RawText(r.result[1]), r.result[2],
                                      r.result[3]>>]
     ELSE [r EXCEPT !.result = <<NoneValue, r.result[2], r.result[3]>>]

\* The Config objects a handle is made from and the host environments.
HandleConfigs ==
  {Config__init__(None, o).dict :
     o \in {EmptyMap,
            [service_account_keyfile |-> "key.json"],
            [service_account_keyfile |-> "key.json",
             service_account_email |-> "me@example.com"],
            [service_account_email |-> "me@example.com", project |-> "foo"],
            [service_account_keyfile |-> "key.json", project |-> "foo",
             properties |-> [a |-> "1", b |-> "2"]],
            [environment_variables |-> [PATH |-> "/opt/tools"]],
            [environment_variables |-> [PATH |-> "/usr/bin:/bin:/opt/tools"]],
            [environment_variables |-> [PATH |-> "/usr/bin"]]}}
HandleHosts ==
  {[CLOUDSDK_DRIVER_LOCATION |-> "/tmp/tmpA", PATH |-> "/usr/bin:/bin"],
   [CLOUDSDK_DRIVER_LOCATION |-> "/tmp/tmpA", PATH |-> "/bin"],
   [CLOUDSDK_DRIVER_LOCATION |-> "/tmp/tmpA"]}

NoRunCall ==
  [op |-> "none", err |-> NoError, ran |-> FALSE, result |-> <<>>,
   argv |-> <<>>, env |-> EmptyMap, arg_env |-> NoEnv, given_env |-> NoEnv,
   timeout |-> NoTimeout, command |-> <<>>, arg_command |-> NoCommand,
   given_command |-> NoCommand, format_keys |-> NoKeys,
   filters |-> None, given_timeout |-> NoTimeout, steps |-> <<>>,
   fail_at |-> 0, config |-> DEFAULT_CONFIG,
   proc |-> [out |-> "", err |-> "", returncode |-> 0]]

HandleIdle ==
  /\ sdk = NoSDK
  /\ run_last = NoRunCall

\* sdk = SDKFromConfig(config)
NewSDKCall ==
  \E cfg \in HandleConfigs, fail_at \in 0..MaxCommands :
    LET r == SDKFromConfig(os_environ, sys_executable, cfg, fail_at)
    IN /\ sdk' = IF r.err = NoError THEN r.sdk ELSE sdk
       /\ run_last' = [NoRunCall EXCEPT !.op = "SDKFromConfig",
                                        !.err = r.err, !.ran = r.ran,
                                        !.steps = r.steps,
                                        !.fail_at = fail_at,
                                        !.config = cfg]
       /\ last' = Call("SDKFromConfig", r.err, r.config_err, r.steps,
                       NoOrigin, r.handle, NoError)
       /\ UNCHANGED <<os_environ, fs, sys_executable, os_name, scopes,
                      origin, torn_down>>
       /\ UNCHANGED <<config_vars, frozen_vars, tar_vars, environ_vars>>

\* The arguments of a method call, as the caller gave them.
MethodArgs(command, format_keys, filters, timeout, env) ==
  [command |-> command, format_keys |-> format_keys, filters |-> filters,
   timeout |-> timeout, env |-> env]

MethodCall(op, args, proc, r) ==
  /\ sdk' = [sdk EXCEPT !._env = r.self_env,
                        !.overlaid = @ \/ (r.ran /\ EnvTruthy(args.env))]
  /\ run_last' = [NoRunCall EXCEPT !.op = op, !.err = r.err, !.ran = r.ran,
                                   !.result = r.result, !.argv = r.argv,
                                   !.env = r.env, !.arg_env = r.arg_env,
                                   !.timeout = r.timeout,
                                   !.given_env = args.env,
                                   !.arg_command = r.arg_command,
                                   !.given_command = args.command,
                                   !.command = _PrepareCommand(args.command).argv,
                                   !.format_keys = args.format_keys,
                                   !.filters = args.filters,
                                   !.given_timeout = args.timeout,
                                   !.proc = proc]
  /\ UNCHANGED <<lifecycle_vars, config_vars, frozen_vars, tar_vars,
                    environ_vars>>

RunCall ==
  /\ sdk.made
  /\ \E command \in Commands, env \in EnvArgs,
        proc \in {p \in PlainProcs : p.err = "warning"} :
       MethodCall("Run", MethodArgs(command, NoKeys, None, NoTimeout, env),
                  proc, Run(sdk, command, NoTimeout, env, proc))

RunGcloudRawOutputCall ==
  /\ sdk.made
  /\ \E command \in {c \in Commands : c.kind # "list"},
        env \in {e \in EnvArgs : e.kind = "None" \/ EnvTruthy(e)},
        proc \in {p \in PlainProcs : p.err = ""} :
       MethodCall("RunGcloudRawOutput",
                  MethodArgs(command, NoKeys, None, NoTimeout, env), proc,
                  RunGcloudRawOutput(sdk, command, "json", None, NoTimeout,
                                     env, proc))

\* The calls of RunGcloud: every output with the default arguments, every
\* combination of format keys and filters, and every combination of
\* timeout and env, with one output.
RunGcloudInputs ==
  {<<MethodArgs(c, NoKeys, None, NoTimeout, NoEnv), p>> :
     c \in {c \in Commands : c.kind = "list"}, p \in Procs}
  \cup
  {<<MethodArgs(c, k, f, NoTimeout, NoEnv), p>> :
     c \in {c \in Commands : c.kind = "str"}, k \in FormatKeys,
     f \in Filters,
     p \in {p \in Procs : p.out = "[]" /\ p.returncode = 0}}
  \cup
  {<<MethodArgs(c, k, "bar", t, e), p>> :
     c \in {c \in Commands : c.kind = "list"},
     k \in {k \in FormatKeys : Len(k.items) = 2}, t \in Timeouts,
     e \in {e \in EnvArgs : e.kind = "None" \/ EnvTruthy(e)},
     p \in {p \in Procs : p.out = "[]" /\ p.returncode = 0}}

RunGcloudCall ==
  /\ sdk.made
  /\ \E input \in RunGcloudInputs :
       LET a == input[1]
           proc == input[2]
       IN MethodCall("RunGcloud", a, proc,
                     RunGcloud(sdk, a.command, a.format_keys, a.filters,
                               a.timeout, a.env, proc))

\* sdk.RunInitializationCommands(), called again on a handle
RunInitializationCommandsCall ==
  /\ sdk.made
  /\ \E fail_at \in 0..MaxCommands :
       LET r == RunInitializationCommands(sdk.config, fail_at)
       IN /\ run_last' = [NoRunCall EXCEPT
                            !.op = "RunInitializationCommands",
                            !.err = r.err, !.ran = TRUE, !.steps = r.steps,
                            !.fail_at = fail_at, !.config = sdk.config]
          /\ UNCHANGED sdk
          /\ UNCHANGED <<lifecycle_vars, config_vars, frozen_vars, tar_vars,
                    environ_vars>>

\* ------------------------------------------------------------------------
\* _sdk_tar: DownloadTar, ExtractWithoutOverwrite and UnpackTar on the
\* files of the disk. A path is the sequence of its components; a
\* directory holds DirNode and a file holds its content. The content of a
\* tar file names the archive it is.
\* ------------------------------------------------------------------------
DirNode == "<dir>"
NoFiles == [p \in {} |-> DirNode]
Exists(disk, p) == p \in DOMAIN disk
IsFile(disk, p) == p \in DOMAIN disk /\ disk[p] # DirNode
IsDir(disk, p) == p \in DOMAIN disk /\ disk[p] = DirNode
Prefixes(p) == {SubSeq(p, 1, n) : n \in 1..Len(p)}
IsUnder(p, d) == Len(p) > Len(d) /\ SubSeq(p, 1, Len(d)) = d

\* os.makedirs(p): the directory and its missing parents
makedirs(disk, p) ==
  [q \in DOMAIN disk \cup Prefixes(p) |->
     IF q \in DOMAIN disk THEN disk[q] ELSE DirNode]

\* open(p, 'wb') and a write of content
WriteFile(disk, p, content) ==
  [q \in DOMAIN disk \cup {p} |-> IF q = p THEN content ELSE disk[q]]

\* a path string as its components, and back
PathOf(text) == SelectSeq(SplitOn("/", text), LAMBDA c : c # "")
PathText(p) == "/" \o JoinWith("/", p)
os_path_basename(text) ==
  LET parts == SplitOn("/", text) IN parts[Len(parts)]
os_path_dirname(p) == SubSeq(p, 1, Len(p) - 1)

\* urlparse.urlsplit(location).path for a location with a scheme
UrlPath(location) ==
  LET scheme == CHOOSE c \in Schemes :
                  /\ Len(location) >= Len(c)
                  /\ SubSeq(location, 1, Len(c)) = c
      parts == SplitOn("/", SubSeq(location, Len(scheme) + 1, Len(location)))
  IN IF Len(parts) > 1 THEN "/" \o JoinWith("/", Tail(parts)) ELSE ""

\* The archives behind the URLs and the files of the caller.
ComponentsURL == "https://example.com/snapshots/components-2.json"
TarURLs == {RELEASE_TAR, ComponentsURL}
Remote(location) ==
  IF location = ComponentsURL THEN "components of example.com"
  ELSE "installer-v1"

\* The members of the archives, by the content of the tar file: three
\* versions of the installer and a full repository, which holds the
\* components file and the first installer. In the third installer VERSION
\* is a symbolic link to the install.sh next to it; on the disk a link
\* holds the name it points to, and since that is a regular file
\* os.path.isfile is true of the link.
File(name, content) == [name |-> name, isfile |-> TRUE, content |-> content]
Directory(name) == [name |-> name, isfile |-> FALSE, content |-> DirNode]
SymLink(name, linkname) ==
  [name |-> name, isfile |-> FALSE, content |-> "-> " \o linkname]
Archives == {"installer-v1", "installer-v2", "installer-v3", "repo-v1"}
getmembers(archive) ==
  IF archive = "installer-v1"
  THEN <<Directory(<<SDK_FOLDER>>),
         File(<<SDK_FOLDER, "install.sh">>, "install.sh v1")>>
  ELSE IF archive = "installer-v2"
  THEN <<Directory(<<SDK_FOLDER>>),
         File(<<SDK_FOLDER, "install.sh">>, "install.sh v2"),
         File(<<SDK_FOLDER, "VERSION">>, "2")>>
  ELSE IF archive = "installer-v3"
  THEN <<Directory(<<SDK_FOLDER>>),
         File(<<SDK_FOLDER, "install.sh">>, "install.sh v3"),
         SymLink(<<SDK_FOLDER, "VERSION">>, "install.sh")>>
  ELSE <<File(<<COMPONENTS_FILE>>, "components v1"),
         File(<<INSTALLER_FILE>>, "installer-v1")>>
Truncated(content) == content \o " (truncated)"

\* What the network does during one fetch: the transfer completes, urlopen
\* raises URLError, or the transfer breaks after some bytes were written;
\* a broken transfer raises socket.error or, wrapped, URLError.
Nets ==
  {[outcome |-> "ok", raised |-> NoError],
   [outcome |-> "refused", raised |-> "URLError"],
   [outcome |-> "broken", raised |-> "socket.error"],
   [outcome |-> "broken", raised |-> "URLError"]}

\* tarfile.open(name=p): the members, ReadError (a TarError) when the file
\* is no archive, IOError when there is no such file.
tarfile_open(disk, p) ==
  IF ~IsFile(disk, p) THEN [err |-> "IOError", members |-> <<>>]
  ELSE IF disk[p] \notin Archives THEN [err |-> "TarError", members |-> <<>>]
  ELSE [err |-> NoError, members |-> getmembers(disk[p])]

\* tar.extract(member, path=directory): a file is written, with its missing
\* parent directories, over what is there (IOError over a directory or
\* under a file); a link is made after what has its name is unlinked
\* (OSError for a directory); a directory is made unless something has
\* its name.
tar_extract(disk, member, directory) ==
  LET target == directory \o member.name
      parent == os_path_dirname(target)
  IN IF member.isfile
     THEN IF \/ IsDir(disk, target)
             \/ \E q \in Prefixes(parent) : IsFile(disk, q)
          THEN [err |-> "IOError", files |-> disk]
          ELSE [err |-> NoError,
                files |-> WriteFile(makedirs(disk, parent), target,
                                    member.content)]
     ELSE IF member.content # DirNode
     THEN IF \/ IsDir(disk, target)
             \/ \E q \in Prefixes(parent) : IsFile(disk, q)
          THEN [err |-> "OSError", files |-> disk]
          ELSE [err |-> NoError,
                files |-> WriteFile(makedirs(disk, parent), target,
                                    member.content)]
     ELSE IF Exists(disk, target) THEN [err |-> NoError, files |-> disk]
     ELSE IF \E q \in Prefixes(parent) : IsFile(disk, q)
     THEN [err |-> "IOError", files |-> disk]
     ELSE [err |-> NoError, files |-> makedirs(disk, target)]

\* Variant: every member is extracted, over the files that are there.
RECURSIVE ExtractWithoutOverwrite_overwrite(_, _, _)
ExtractWithoutOverwrite_overwrite(disk, members, directory) ==
  IF members = <<>>
  THEN [err |-> NoError, files |-> disk, skipped |-> <<>>,
        extracted |-> <<>>]
  ELSE LET member == Head(members)
           e == tar_extract(disk, member, directory)
           rest == ExtractWithoutOverwrite_overwrite(e.files, Tail(members),
                                                     directory)
       IN IF e.err # NoError
          THEN [err |-> e.err, files |-> e.files, skipped |-> <<>>,
                extracted |-> <<>>]
          ELSE [rest EXCEPT !.extracted = <<member.name>> \o @]

\* _sdk_tar.ExtractWithoutOverwrite: the error raised, if any, the files
\* afterwards, and the names of the members skipped and extracted.
RECURSIVE ExtractWithoutOverwrite(_, _, _)
ExtractWithoutOverwrite(disk, members, directory) ==
  IF members = <<>>
  THEN [err |-> NoError, files |-> disk, skipped |-> <<>>,
        extracted |-> <<>>]
  ELSE LET member == Head(members)
       IN IF member.isfile /\ IsFile(disk, directory \o member.name)
          THEN LET rest == ExtractWithoutOverwrite(disk, Tail(members),
                                                   directory)
               IN [rest EXCEPT !.skipped = <<member.name>> \o @]
          ELSE LET e == tar_extract(disk, member, directory)
                   rest == ExtractWithoutOverwrite(e.files, Tail(members),
                                                   directory)
               IN IF e.err # NoError
                  THEN [err |-> e.err, files |-> e.files, skipped |-> <<>>,
                        extracted |-> <<>>]
                  ELSE [rest EXCEPT !.extracted = <<member.name>> \o @]

\* os.listdir(d)
os_listdir(disk, d) ==
  {p[Len(d) + 1] : p \in {q \in DOMAIN disk : IsUnder(q, d)}}

\* shutil.move(source/name, destination) for each of the names: the entry
\* and all below it get their new place.
MoveAll(disk, source, destination, names) ==
  LET Moves(p) == IsUnder(p, source) /\ p[Len(source) + 1] \in names
      NewPath(p) == IF Moves(p)
                    THEN destination \o SubSeq(p, Len(source) + 1, Len(p))
                    ELSE p
  IN [q \in {NewPath(p) : p \in DOMAIN disk} |->
        disk[CHOOSE p \in DOMAIN disk : NewPath(p) = q]]

NoUnpack ==
  [err |-> NoError, files |-> NoFiles, result |-> None, opened |-> <<>>,
   kind |-> "none", extracted |-> <<>>, skipped |-> <<>>, moved |-> {},
   left |-> {}]

\* Variant: the nested installer of a full repository is not extracted.
UnpackTar_no_nested(disk, download_path, tar_location, root_directory) ==
  LET root == PathOf(root_directory)
      repo_directory == root \o <<REPO_FOLDER>>
      made == IF ~Exists(disk, repo_directory)
              THEN makedirs(disk, repo_directory) ELSE disk
      tar == tarfile_open(made, PathOf(download_path))
      first == ExtractWithoutOverwrite(made, tar.members, repo_directory)
      components_json == repo_directory \o <<COMPONENTS_FILE>>
      installer == repo_directory \o <<INSTALLER_FILE>>
      nested == tarfile_open(first.files, installer)
      second == ExtractWithoutOverwrite(first.files, nested.members, root)
      sibling == os_path_dirname(PathOf(tar_location)) \o <<COMPONENTS_FILE>>
      names == os_listdir(first.files, repo_directory)
      moved == {n \in names : ~Exists(first.files, root \o <<n>>)}
      unpacked == [NoUnpack EXCEPT !.opened = <<download_path>>,
                                   !.extracted = first.extracted,
                                   !.skipped = first.skipped]
  IN IF tar.err # NoError
     THEN [NoUnpack EXCEPT !.err = IF tar.err = "TarError"
                                   THEN RaiseTarError("extracting")
                                   ELSE tar.err,
                           !.files = made, !.opened = <<download_path>>]
     ELSE IF first.err # NoError
     THEN [unpacked EXCEPT !.err = first.err, !.files = first.files]
     ELSE IF IsFile(first.files, components_json)
     THEN [unpacked EXCEPT
             !.kind = "repo",
             !.files = first.files,
             !.result = "file://" \o PathText(components_json)]
     ELSE [unpacked EXCEPT
             !.kind = "installer",
             !.files = MoveAll(first.files, repo_directory, root, moved),
             !.moved = moved,
             !.left = names \ moved,
             !.result = IF /\ ~HasScheme(tar_location)
                           /\ IsFile(first.files, sibling)
                        THEN "file://" \o PathText(sibling)
                        ELSE None]

\* _sdk_tar.UnpackTar: the error raised, if any, the files afterwards, the
\* snapshot URL returned, the tar files opened, what the archive was taken
\* for, the members extracted from it and skipped, and the names moved up
\* and left in the repo folder.
UnpackTar(disk, download_path, tar_location, root_directory) ==
  LET root == PathOf(root_directory)
      repo_directory == root \o <<REPO_FOLDER>>
      made == IF ~Exists(disk, repo_directory)
              THEN makedirs(disk, repo_directory) ELSE disk
      tar == tarfile_open(made, PathOf(download_path))
      first == ExtractWithoutOverwrite(made, tar.members, repo_directory)
      components_json == repo_directory \o <<COMPONENTS_FILE>>
      installer == repo_directory \o <<INSTALLER_FILE>>
      nested == tarfile_open(first.files, installer)
      second == ExtractWithoutOverwrite(first.files, nested.members, root)
      sibling == os_path_dirname(PathOf(tar_location)) \o <<COMPONENTS_FILE>>
      names == os_listdir(first.files, repo_directory)
      moved == {n \in names : ~Exists(first.files, root \o <<n>>)}
      unpacked == [NoUnpack EXCEPT !.opened = <<download_path>>,
                                   !.extracted = first.extracted,
                                   !.skipped = first.skipped]
  IN IF tar.err # NoError
     THEN [NoUnpack EXCEPT !.err = IF tar.err = "TarError"
                                   THEN RaiseTarError("extracting")
                                   ELSE tar.err,
                           !.files = made, !.opened = <<download_path>>]
     ELSE IF first.err # NoError
     THEN [unpacked EXCEPT !.err = first.err, !.files = first.files]
     ELSE IF IsFile(first.files, components_json)
     THEN [unpacked EXCEPT
             !.kind = "repo",
             !.opened = @ \o <<PathText(installer)>>,
             !.err = IF nested.err = "TarError"
                     THEN RaiseTarError("extracting")
                     ELSE IF nested.err # NoError THEN nested.err
                     ELSE second.err,
             !.files = IF nested.err # NoError THEN first.files
                       ELSE second.files,
             !.result = IF nested.err = NoError /\ second.err = NoError
                        THEN "file://" \o PathText(components_json)
                        ELSE None]
     ELSE [unpacked EXCEPT
             !.kind = "installer",
             !.files = MoveAll(first.files, repo_directory, root, moved),
             !.moved = moved,
             !.left = names \ moved,
             !.result = IF /\ ~HasScheme(tar_location)
                           /\ IsFile(first.files, sibling)
                        THEN "file://" \o PathText(sibling)
                        ELSE None]

\* The name a URL is cached under in the download folder.
CachePath(tar_location, download_directory) ==
  PathOf(download_directory)
  \o <<DOWNLOAD_FOLDER, os_path_basename(UrlPath(tar_location))>>

\* Variant: a URL is fetched whether or not its file is there.
DownloadTar_always_fetch(disk, tar_location, download_directory, net) ==
  IF HasScheme(tar_location)
  THEN LET download_path == CachePath(tar_location, download_directory)
           made == makedirs(disk, os_path_dirname(download_path))
       IN IF net.outcome = "ok"
          THEN [err |-> NoError,
                files |-> WriteFile(made, download_path,
                                    Remote(tar_location)),
                result |-> PathText(download_path), fetched |-> TRUE]
          ELSE [err |-> RaiseTarError("downloading"), files |-> made,
                result |-> None, fetched |-> TRUE]
  ELSE IF ~IsFile(disk, PathOf(tar_location))
  THEN [err |-> "ValueError", files |-> disk, result |-> None,
        fetched |-> FALSE]
  ELSE [err |-> NoError, files |-> disk, result |-> tar_location,
        fetched |-> FALSE]

\* Variant: the download folder is made before the location is looked at.
DownloadTar_makedirs_first(disk, tar_location, download_directory, net) ==
  LET directory == PathOf(download_directory) \o <<DOWNLOAD_FOLDER>>
      made == makedirs(disk, directory)
      download_path == CachePath(tar_location, download_directory)
  IN IF HasScheme(tar_location)
     THEN IF ~IsFile(made, download_path)
          THEN IF net.outcome = "ok"
               THEN [err |-> NoError,
                     files |-> WriteFile(made, download_path,
                                         Remote(tar_location)),
                     result |-> PathText(download_path), fetched |-> TRUE]
               ELSE [err |-> RaiseTarError("downloading"), files |-> made,
                     result |-> None, fetched |-> TRUE]
          ELSE [err |-> NoError, files |-> made,
                result |-> PathText(download_path), fetched |-> FALSE]
     ELSE IF ~IsFile(disk, PathOf(tar_location))
     THEN [err |-> "ValueError", files |-> made, result |-> None,
           fetched |-> FALSE]
     ELSE [err |-> NoError, files |-> made, result |-> tar_location,
           fetched |-> FALSE]

\* _sdk_tar.DownloadTar: the error raised, if any, the files afterwards,
\* the path returned and whether the URL was fetched.
DownloadTar(disk, tar_location, download_directory, net) ==
  IF HasScheme(tar_location)
  THEN LET directory == PathOf(download_directory) \o <<DOWNLOAD_FOLDER>>
           made == IF ~Exists(disk, directory) THEN makedirs(disk, directory)
                   ELSE disk
           download_path == CachePath(tar_location, download_directory)
       IN IF ~IsFile(made, download_path)
          THEN IF net.outcome = "ok"
               THEN [err |-> NoError,
                     files |-> WriteFile(made, download_path,
                                         Remote(tar_location)),
                     result |-> PathText(download_path), fetched |-> TRUE]
               ELSE IF net.outcome = "refused"
               THEN [err |-> RaiseTarError("downloading"), files |-> made,
                     result |-> None, fetched |-> TRUE]
               ELSE [err |-> IF net.raised = "URLError"
                             THEN RaiseTarError("downloading")
                             ELSE net.raised,
                     files |-> WriteFile(made, download_path,
                                         Truncated(Remote(tar_location))),
                     result |-> None, fetched |-> TRUE]
          ELSE [err |-> NoError, files |-> made,
                result |-> PathText(download_path), fetched |-> FALSE]
  ELSE IF ~IsFile(disk, PathOf(tar_location))
  THEN [err |-> "ValueError", files |-> disk, result |-> None,
        fetched |-> FALSE]
  ELSE [err |-> NoError, files |-> disk, result |-> tar_location,
        fetched |-> FALSE]

\* The disk before the driver is used: the caller's tar files, and the root
\* directory Init has made.
TarRoot == RootNames[1]
LocalInstaller == "/repo/google-cloud-sdk.tar.gz"
LocalRepo == "/data/cloud-sdk-repo.tar.gz"
MissingTar == "/data/missing.tar.gz"
LocalLinks == "/data/google-cloud-sdk-3.tar.gz"
TarFiles ==
  (PathOf(LocalTar) :> "installer-v2")
  @@ (PathOf(LocalLinks) :> "installer-v3")
  @@ (PathOf(LocalRepo) :> "repo-v1")
  @@ (PathOf(LocalInstaller) :> "installer-v1")
  @@ (<<"repo", COMPONENTS_FILE>> :> "components of /repo")
  @@ (<<"data">> :> DirNode) @@ (<<"repo">> :> DirNode)
  @@ (<<"work">> :> DirNode) @@ (PathOf(TarRoot) :> DirNode)

NoTarCall ==
  [op |-> "none", err |-> NoError, location |-> None, result |-> None,
   fetched |-> FALSE, net |-> [outcome |-> "ok", raised |-> NoError],
   pre |-> NoFiles, download_path |-> None, archive |-> None,
   directory |-> <<>>, opened |-> <<>>, kind |-> "none",
   extracted |-> <<>>, skipped |-> <<>>, moved |-> {}, left |-> {}]

TarIdle ==
  /\ files = TarFiles
  /\ tar_last = NoTarCall

\* _sdk_tar.DownloadTar(tar_location, root_directory), as Init calls it
DownloadTarCall ==
  \E tar_location \in TarURLs \cup {LocalTar, MissingTar}, net \in Nets :
    LET r == DownloadTar(files, tar_location, TarRoot, net)
    IN /\ net.outcome # "ok" => tar_location = RELEASE_TAR
       /\ files' = r.files
       /\ tar_last' = [NoTarCall EXCEPT !.op = "DownloadTar", !.err = r.err,
                                        !.location = tar_location,
                                        !.result = r.result,
                                        !.fetched = r.fetched, !.net = net,
                                        !.pre = files]
       /\ UNCHANGED <<lifecycle_vars, config_vars, frozen_vars, handle_vars,
                      environ_vars>>

\* _sdk_tar.UnpackTar(download_path, tar_location, root_directory), as Init
\* calls it: download_path is what DownloadTar returned for tar_location.
UnpackTarCall ==
  \E tar_location \in {RELEASE_TAR, LocalRepo, LocalTar, LocalInstaller,
                       LocalLinks} :
    LET download_path == IF HasScheme(tar_location)
                         THEN PathText(CachePath(tar_location, TarRoot))
                         ELSE tar_location
        r == UnpackTar(files, download_path, tar_location, TarRoot)
    IN /\ IsFile(files, PathOf(download_path))
       /\ files' = r.files
       /\ tar_last' = [NoTarCall EXCEPT
                         !.op = "UnpackTar", !.err = r.err,
                         !.location = tar_location, !.result = r.result,
                         !.pre = files, !.download_path = download_path,
                         !.archive = files[PathOf(download_path)],
                         !.directory = PathOf(TarRoot),
                         !.opened = r.opened, !.kind = r.kind,
                         !.extracted = r.extracted, !.skipped = r.skipped,
                         !.moved = r.moved, !.left = r.left]
       /\ UNCHANGED <<lifecycle_vars, config_vars, frozen_vars, handle_vars,
                      environ_vars>>

\* ExtractWithoutOverwrite(tar, directory) for an open archive
ExtractWithoutOverwriteCall ==
  \E archive \in Archives,
     directory \in {PathOf(TarRoot) \o <<REPO_FOLDER>>} :
    LET r == ExtractWithoutOverwrite(files, getmembers(archive), directory)
    IN /\ files' = r.files
       /\ tar_last' = [NoTarCall EXCEPT
                         !.op = "ExtractWithoutOverwrite", !.err = r.err,
                         !.pre = files, !.archive = archive,
                         !.directory = directory,
                         !.extracted = r.extracted, !.skipped = r.skipped]
       /\ UNCHANGED <<lifecycle_vars, config_vars, frozen_vars, handle_vars,
                      environ_vars>>

\* _config.PrepareEnviron(user_environ, config_name, sdk_dir) with the
\* os.environ and the sys.executable of the process
InterpreterEnvs ==
  {EmptyMap, DEFAULT_CONFIG.environment_variables,
   [CLOUDSDK_PYTHON |-> "my_python"]}
PrepareEnvironCall ==
  \E user_environ \in InterpreterEnvs :
    LET sdk_dir == os_path_join(TmpNames[1], SDK_FOLDER)
        p == PrepareEnviron(user_environ, config_name, sdk_dir, os_environ,
                            sys_executable)
    IN /\ run_last' = [NoRunCall EXCEPT
                         !.op = "PrepareEnviron", !.err = p.err,
                         !.env = p.environ,
                         !.given_env = [kind |-> "dict",
                                        value |-> user_environ]]
       /\ UNCHANGED sdk
       /\ UNCHANGED <<lifecycle_vars, config_vars, frozen_vars, tar_vars,
                      environ_vars>>

\* ------------------------------------------------------------------------
\* SDKFromConfig on objects: the mapping config.environment_variables is an
\* object of the heap, PrepareEnviron gets a reference to it, and an SDK
\* object holds a reference to the mapping PrepareEnviron returned.
\* ------------------------------------------------------------------------
\* Variant: the caller's mapping is not copied.
PrepareEnvironRef_in_place(h, live, user_environ, name, sdk_dir, host_environ, sysexe) ==
  LET environ == user_environ
      given == AsMap(h[user_environ])
      p == PrepareEnviron(given, name, sdk_dir, host_environ, sysexe)
      path == JoinWith(os_pathsep,
                       PathComponents(os_path_join(sdk_dir, BIN_FOLDER),
                                      given, host_environ["PATH"]))
      h1 == [h EXCEPT ![environ] = SetItemIn(@, "PATH", path)]
      h2 == [h1 EXCEPT ![environ] =
               SetItemIn(@, CONFIG_ENV, os_path_join(sdk_dir, name))]
      h3 == IF PYTHON_ENV \in DOMAIN given THEN h2
            ELSE [h2 EXCEPT ![environ] = SetItemIn(@, PYTHON_ENV, sysexe)]
      h4 == [h3 EXCEPT ![environ] =
               SetItemIn(@, PYTHON_PATH, p.environ[PYTHON_PATH])]
  IN IF p.err = "KeyError"
     THEN [err |-> p.err, heap |-> h, environ |-> None]
     ELSE IF p.err # NoError
     THEN [err |-> p.err, heap |-> h2, environ |-> None]
     ELSE [err |-> NoError, heap |-> h4, environ |-> environ]

\* _config.PrepareEnviron on objects: the error raised, if any, the heap
\* afterwards and the reference returned. The mapping is copied, then PATH,
\* CLOUDSDK_CONFIG, CLOUDSDK_PYTHON and PYTHONPATH are set in the copy, in
\* this order; the values are those of PrepareEnviron above.
PrepareEnvironRef(h, live, user_environ, name, sdk_dir, host_environ, sysexe) ==
  LET environ == Fresh(live, 1)
      h0 == Put(h, environ, h[user_environ])
      given == AsMap(h0[environ])
      p == PrepareEnviron(given, name, sdk_dir, host_environ, sysexe)
      path == JoinWith(os_pathsep,
                       PathComponents(os_path_join(sdk_dir, BIN_FOLDER),
                                      given, host_environ["PATH"]))
      h1 == [h0 EXCEPT ![environ] = SetItemIn(@, "PATH", path)]
      h2 == [h1 EXCEPT ![environ] =
               SetItemIn(@, CONFIG_ENV, os_path_join(sdk_dir, name))]
      h3 == IF PYTHON_ENV \in DOMAIN given THEN h2
            ELSE [h2 EXCEPT ![environ] = SetItemIn(@, PYTHON_ENV, sysexe)]
      h4 == [h3 EXCEPT ![environ] =
               SetItemIn(@, PYTHON_PATH, p.environ[PYTHON_PATH])]
  IN IF p.err = "KeyError"
     THEN [err |-> p.err, heap |-> h0, environ |-> None]
     ELSE IF p.err # NoError
     THEN [err |-> p.err, heap |-> h2, environ |-> None]
     ELSE [err |-> NoError, heap |-> h4, environ |-> environ]

NoHandleEnv == [made |-> FALSE, ref |-> None, env0 |-> <<>>]
NoEnvironCall ==
  [op |-> "none", err |-> NoError, slot |-> 0, given |-> None,
   pre |-> <<>>, post |-> <<>>]

EnvironIdle ==
  /\ envs = [i \in Slots |-> NoHandleEnv]
  /\ env_last = NoEnvironCall

\* sdk = SDKFromConfig(config) for the Config object: PrepareEnviron, then
\* SDK.__init__ with its ImmutableConfig, then the initialization commands;
\* the first SDK object takes slot 1. When the call raises no SDK object is
\* made and what it created is garbage.
SDKFromConfigRefCall ==
  \E slot \in {i \in Slots : ~envs[i].made /\ (i = 1 \/ envs[1].made)},
     fail_at \in {0, 1} :
    LET user_environ == cfg_obj["environment_variables"]
        live == RefsOf(cfg_obj) \cup RefsOf(frozen[3 - slot])
                \cup {envs[i].ref : i \in {j \in Slots : envs[j].made}}
        sdk_dir == os_path_join(Get(os_environ, DRIVER_LOCATION_ENV),
                                SDK_FOLDER)
        p == PrepareEnvironRef(heap, live, user_environ, config_name,
                               sdk_dir, os_environ, sys_executable)
        c == ImmutableConfig__init__(p.heap, live \cup {p.environ}, cfg_obj)
        v == SDKFromConfig(os_environ, sys_executable,
                           Content(heap, cfg_obj), fail_at)
        h == IF p.err # NoError THEN p.heap ELSE Update(p.heap, c.heap)
        made == IF v.err = NoError THEN RefsOf(c.dict) \cup {p.environ}
                ELSE {}
        kept == [r \in (live \cup RefsOf(frozen[slot]) \cup made) |-> h[r]]
    IN /\ ~DriverLocationMissing(os_environ)
       /\ heap' = kept
       /\ frozen' = IF v.err = NoError
                    THEN [frozen EXCEPT ![slot] = c.dict] ELSE frozen
       /\ frozen_seen' = IF v.err = NoError
                         THEN [frozen_seen EXCEPT
                                 ![slot] = Deref(heap, cfg_obj)]
                         ELSE frozen_seen
       /\ envs' = IF v.err = NoError
                  THEN [envs EXCEPT ![slot] =
                          [made |-> TRUE, ref |-> p.environ,
                           env0 |-> p.heap[p.environ]]]
                  ELSE envs
       /\ env_last' = [op |-> "SDKFromConfig", err |-> v.err, slot |-> slot,
                       given |-> user_environ, pre |-> heap[user_environ],
                       post |-> kept[user_environ]]
       /\ frz_last' = [op |-> "SDKFromConfig", err |-> v.err, slot |-> slot]
       /\ UNCHANGED cfg_obj
       /\ UNCHANGED <<lifecycle_vars, config_vars, handle_vars, tar_vars>>

\* ------------------------------------------------------------------------
\* Specifications.
\* ------------------------------------------------------------------------
Init ==
  /\ LifecycleInit /\ ConfigInit /\ FrozenIdle /\ HandleIdle /\ TarIdle
  /\ EnvironIdle

Next ==
  \/ InitCall
  \/ DestroyCall
  \/ ManagerEnter
  \/ ManagerFailed
  \/ ManagerExit
  \/ CallerRemovesDirectory

\* The lifecycle alone.
Spec == Init /\ [][Next]_vars

SDKNext ==
  \/ InitCall
  \/ DestroyCall
  \/ SDKFromConfigCall
  \/ DefaultSDKCall
  \/ SDKFromFileCall
  \/ SDKFromDictCall
  \/ SDKFromArgsCall

\* Init and Destroy with the SDK factories called at any point.
SpecSDK == Init /\ [][SDKNext]_vars

ConfigStart ==
  /\ os_environ = EmptyMap
  /\ fs = {}
  /\ sys_executable = "sys_python"
  /\ os_name = "posix"
  /\ scopes = 0
  /\ origin = NoOrigin
  /\ torn_down = FALSE
  /\ last = NoCall
  /\ ConfigInit
  /\ FrozenIdle
  /\ HandleIdle
  /\ TarIdle
  /\ EnvironIdle

ConfigNext ==
  \/ NewConfig
  \/ LoadFileCall
  \/ SetAttr
  \/ SetItem

SpecConfig == ConfigStart /\ [][ConfigNext]_vars

FrozenNext ==
  \/ FreezeCall
  \/ ConfigAssign
  \/ ConfigNestedSet
  \/ ImmutableSetAttr
  \/ ImmutableSetItem

\* A Config, the ImmutableConfigs made from it and the assignments to both.
SpecFrozen == ConfigStart /\ [][FrozenNext]_vars

HandleStart ==
  /\ os_environ \in HandleHosts
  /\ fs = {"/tmp/tmpA"}
  /\ sys_executable \in {None, "sys_python"}
  /\ sys_executable = None => "PATH" \in DOMAIN os_environ
  /\ os_name = "posix"
  /\ scopes = 0
  /\ origin = [root |-> "/tmp/tmpA", given |-> FALSE, existed |-> FALSE]
  /\ torn_down = FALSE
  /\ last = NoCall
  /\ ConfigInit
  /\ FrozenIdle
  /\ HandleIdle
  /\ TarIdle
  /\ EnvironIdle

HandleNext ==
  \/ NewSDKCall
  \/ RunCall
  \/ RunGcloudRawOutputCall
  \/ RunGcloudCall
  \/ RunInitializationCommandsCall

\* An installation is recorded; SDK objects are made and used.
SpecHandle == HandleStart /\ [][HandleNext]_vars

TarNext ==
  \/ DownloadTarCall
  \/ UnpackTarCall
  \/ ExtractWithoutOverwriteCall

\* Tar files are downloaded and unpacked into a root directory.
SpecTar == ConfigStart /\ [][TarNext]_vars

InterpreterNext ==
  \/ InitCall
  \/ DestroyCall
  \/ PrepareEnvironCall

\* Init and Destroy, and PrepareEnviron called at any point.
SpecInterpreter == Init /\ [][InterpreterNext]_vars

EnvironNext ==
  \/ SDKFromConfigRefCall
  \/ ConfigNestedSet

\* SDK objects are made from one Config object, which is changed in between.
SpecEnviron == HandleStart /\ [][EnvironNext]_vars

\* ------------------------------------------------------------------------
\* Properties of the lifecycle (checked under Spec).
\* ------------------------------------------------------------------------
RecordIn(environ) == DRIVER_LOCATION_ENV \in DOMAIN environ
KeepIn(environ) == DRIVER_KEEP_LOCATION_ENV \in DOMAIN environ
InitOps == {"Init", "ManagerEnter"}
DestroyOps == {"Destroy", "ManagerExit", "Manager"}
FactoryOps ==
  {"SDKFromConfig", "DefaultSDK", "SDKFromFile", "SDKFromDict", "SDKFromArgs"}

\* C1: an Init called while a record is active raises InitError before it
\* does anything: it takes no step (no directory, download, extraction or
\* installer run), and os.environ (the recorded root and the keep marker)
\* and the directories are what they were before the call.
C1_InitWhileActiveRejected ==
  (last.op = "Init" /\ RecordIn(last.pre)) =>
    /\ last.err = "InitError"
    /\ last.steps = <<>>
    /\ os_environ = last.pre
    /\ fs = last.prefs

C1_Witness ==
  /\ last.op = "Init"
  /\ RecordIn(last.pre)
  /\ last.err = "InitError"
  /\ KeepIn(last.pre)

\* C2: starting with no record, the record is set exactly by an Init that
\* returns, as the last of its steps and after the download, the extraction,
\* the installer run and the SDK directory check in this order; after an
\* Init that raises there is no record and SDKFromConfig raises SDKError.
C2_RecordPublishedLast ==
  (last.op \in InitOps /\ ~RecordIn(last.pre)) =>
    /\ RecordIn(os_environ) <=> last.err = NoError
    /\ \A i \in DOMAIN last.steps :
         last.steps[i] = "publish" => i = Len(last.steps)
    /\ last.err = NoError =>
         /\ Len(last.steps) = 6
         /\ SubSeq(last.steps, 2, 6) =
              <<"DownloadTar", "UnpackTar", "Popen", "isdir", "publish">>
         /\ os_environ[DRIVER_LOCATION_ENV] = last.init.root
    /\ last.err # NoError =>
         /\ ~RecordIn(os_environ)
         /\ SDKFromConfig(os_environ, sys_executable, DEFAULT_CONFIG, 0).err
              = "SDKError"

C2_Witness ==
  /\ last.op = "Init"
  /\ ~RecordIn(last.pre)
  /\ last.err = "InitError"
  /\ last.why = "SDK directory was not created"
  /\ ~RecordIn(os_environ)

\* C3: when the active record comes from an Init without root_directory,
\* the next Destroy removes the generated root directory.
C3_GeneratedRootRemoved ==
  (last.op \in DestroyOps /\ last.rec.root # None /\ ~last.rec.given) =>
    last.rec.root \notin fs

\* C4 as stated: the next Destroy does not remove the root directory of a
\* record that comes from an Init with root_directory, whatever was passed.
C4_AnyGivenRootPreserved ==
  (last.op \in DestroyOps /\ last.rec.root # None /\ last.rec.given
     /\ last.rec.root \in last.prefs) =>
    last.rec.root \in fs

\* C4 amended: the next Destroy does not remove the root directory of a
\* record that comes from an Init with a root_directory that was an existing
\* directory when Init was called.
C4_ExistingGivenRootPreserved ==
  (last.op \in DestroyOps /\ last.rec.root # None /\ last.rec.given
     /\ last.rec.existed) =>
    /\ last.rec.root \in last.prefs => last.rec.root \in fs
    /\ "rmtree" \notin Range(last.steps)

C4_Witness ==
  /\ last.op = "Destroy"
  /\ last.rec.given
  /\ last.rec.existed
  /\ last.rec.root \in fs
  /\ ~RecordIn(os_environ)

\* C5: after Destroy returns neither the record nor the keep marker is set,
\* whatever was set before (also when the recorded root directory is
\* missing); when neither was set, Destroy changes nothing and does not fail.
C5_DestroyClearsMarkers ==
  last.op = "Destroy" =>
    /\ last.err = NoError
    /\ ~RecordIn(os_environ)
    /\ ~KeepIn(os_environ)
    /\ (~RecordIn(last.pre) /\ ~KeepIn(last.pre)) =>
         (os_environ = last.pre /\ fs = last.prefs)

C5_Witness ==
  /\ last.op = "Destroy"
  /\ KeepIn(last.pre)
  /\ ~RecordIn(last.pre)
  /\ ~KeepIn(os_environ)

\* C6: when the body of a Manager scope ends, normally or with an
\* exception, Destroy runs, the exception (if any) reaches the caller and
\* no record exists afterwards.
C6_ManagerExitDestroys ==
  last.op = "ManagerExit" =>
    /\ "Destroy" \in Range(last.steps)
    /\ last.err = last.exc
    /\ ~RecordIn(os_environ)

C6_Witness ==
  /\ last.op = "ManagerExit"
  /\ last.exc = "BodyError"
  /\ RecordIn(last.pre)
  /\ ~RecordIn(os_environ)

\* C7: a record is created only by a successful Init called when none
\* exists (so there is never a second one), Destroy removes it, and an Init
\* called when no record exists is never rejected as already initialized.
C7_LifecycleRepeatable ==
  /\ (last.op \in InitOps /\ last.err = NoError) =>
       /\ ~RecordIn(last.pre)
       /\ RecordIn(os_environ)
       /\ os_environ[DRIVER_LOCATION_ENV] = last.init.root
  /\ (last.op = "Init" /\ ~RecordIn(last.pre)) =>
       last.why # "already initialized"
  /\ (last.op = "Init" /\ RecordIn(last.pre)) =>
       last.why = "already initialized"
  /\ last.op \in DestroyOps => ~RecordIn(os_environ)
  /\ RecordIn(os_environ) => os_environ[DRIVER_LOCATION_ENV] = origin.root

C7_Witness ==
  /\ last.op = "Init"
  /\ last.err = NoError
  /\ torn_down
  /\ RecordIn(os_environ)

\* (C8 is checked under SpecSDK.)
\* C8 as stated: every SDK factory called while no record exists raises
\* SDKError, runs no command and returns no handle.
C8_FactoryRaisesSDKError ==
  (last.op \in FactoryOps /\ ~RecordIn(last.pre)) =>
    /\ last.err = "SDKError"
    /\ last.steps = <<>>
    /\ ~last.handle

\* C8 amended: every SDK factory called while no record exists raises, runs
\* no command and returns no handle; the error is SDKError when the Config
\* was built (always for SDKFromConfig and DefaultSDK) and otherwise the
\* error the Config constructor raised.
C8_FactoryRaises ==
  (last.op \in FactoryOps /\ ~RecordIn(last.pre)) =>
    /\ last.err # NoError
    /\ last.steps = <<>>
    /\ ~last.handle
    /\ last.why = NoError => last.err = "SDKError"
    /\ last.why # NoError => last.err = last.why
    /\ last.op \in {"SDKFromConfig", "DefaultSDK"} => last.why = NoError

C8_Witness ==
  /\ last.op = "SDKFromArgs"
  /\ ~RecordIn(last.pre)
  /\ torn_down
  /\ last.err = "SDKError"

\* ------------------------------------------------------------------------
\* Properties of Config (checked under SpecConfig).
\* ------------------------------------------------------------------------
\* C9: the key set of a Config is the key set of DEFAULT_CONFIG, and every
\* call asked to set a key outside it raises ConfigError and adds no key.
C9_KeySetFixed ==
  /\ DOMAIN config = DOMAIN DEFAULT_CONFIG
  /\ ~(cfg_last.asked \subseteq DOMAIN DEFAULT_CONFIG) =>
       /\ cfg_last.err = "ConfigError"
       /\ DOMAIN config = DOMAIN cfg_last.pre

C9_Witness ==
  /\ cfg_last.op = "LoadFile"
  /\ "foo" \in cfg_last.asked
  /\ cfg_last.err = "ConfigError"
  /\ config.project = "foo"

\* C10: after a call that does not raise, environment_variables contains
\* none of the locked names.
C10_NoLockedVariable ==
  cfg_last.err = NoError =>
    \A v \in LOCKED_ENVIRONMENT_VARIABLES :
      v \notin DOMAIN config.environment_variables

\* ------------------------------------------------------------------------
\* Properties of ImmutableConfig (checked under SpecFrozen).
\* ------------------------------------------------------------------------
\* C13: whatever is assigned to the Config or to its nested mappings after
\* ImmutableConfig(config) was built, the values read through the
\* ImmutableConfig are those the Config had when it was built.
C13_FrozenIndependent ==
  \A i \in Slots :
    frozen[i] # NoObject => Deref(heap, frozen[i]) = frozen_seen[i]

C13_Witness ==
  /\ frz_last.op = "nested"
  /\ frozen[1] # NoObject
  /\ Deref(heap, frozen[1]) = frozen_seen[1]
  /\ AsMap(heap[cfg_obj.environment_variables])
       # AsMap(frozen_seen[1].environment_variables)
  /\ cfg_obj.project # frozen_seen[1].project

\* C14: every assignment to an ImmutableConfig, by attribute or by item, to
\* a key of the schema or to any other, raises ConfigError and changes none
\* of its values.
C14_ImmutableAssignRaises ==
  frz_last.op \in {"setattr", "setitem"} =>
    /\ frz_last.err = "ConfigError"
    /\ DOMAIN frozen[frz_last.slot] = DOMAIN DEFAULT_CONFIG
    /\ Deref(heap, frozen[frz_last.slot]) = frozen_seen[frz_last.slot]

C14_Witness ==
  /\ frz_last.op = "setitem"
  /\ frz_last.err = "ConfigError"
  /\ frozen[frz_last.slot].project = None
  /\ frozen[3 - frz_last.slot] # NoObject
  /\ frozen[3 - frz_last.slot].project = "foo"

\* C15: two ImmutableConfigs are equal exactly when their fields have the
\* same content, whatever the insertion order of the keys of the nested
\* mappings; equal ones have equal hashes.
C15_EqualIffSameContent ==
  (frozen[1] # NoObject /\ frozen[2] # NoObject) =>
    /\ ImmutableConfig__eq__(heap, frozen[1], frozen[2])
         <=> Content(heap, frozen[1]) = Content(heap, frozen[2])
    /\ ImmutableConfig__eq__(heap, frozen[1], frozen[2]) =>
         ImmutableConfig__hash__(heap, frozen[1])
           = ImmutableConfig__hash__(heap, frozen[2])

C15_Witness ==
  /\ frozen[1] # NoObject
  /\ frozen[2] # NoObject
  /\ ImmutableConfig__eq__(heap, frozen[1], frozen[2])
  /\ Deref(heap, frozen[1]) # Deref(heap, frozen[2])
  /\ Len(heap[frozen[1].environment_variables]) = 3
  /\ frozen[1].project = "foo"

\* ------------------------------------------------------------------------
\* Properties of the SDK object (checked under SpecHandle).
\* ------------------------------------------------------------------------
RunOps == {"Run", "RunGcloudRawOutput", "RunGcloud"}

\* C16: in the environment of every SDK object the first PATH entry is the
\* SDK's bin folder, the entries of the caller's PATH follow in their
\* order, every segment of the host PATH is there, and none of them twice.
C16_PathWellFormed ==
  sdk.made =>
    LET entries == SplitOn(os_pathsep, sdk._env["PATH"])
        caller == IF "PATH" \in DOMAIN sdk.user_environ
                  THEN SplitOn(os_pathsep, sdk.user_environ["PATH"])
                  ELSE <<>>
        host == SplitOn(os_pathsep, sdk.host_path)
    IN /\ entries[1] = os_path_join(sdk._sdk_dir, BIN_FOLDER)
       /\ Len(entries) >= 1 + Len(caller)
       /\ SubSeq(entries, 2, 1 + Len(caller)) = caller
       /\ \A seg \in Range(host) :
            Cardinality({i \in DOMAIN entries : entries[i] = seg}) = 1

\* C17: RunInitializationCommands issues the activation of the service
\* account iff a keyfile is configured (with the email iff one is
\* configured), then the project iff one is configured, then one command
\* for each property; it stops at the first command that fails, raising
\* SDKError, and issues nothing for the default Config.
C17_InitializationCommandsInOrder ==
  (run_last.op \in {"SDKFromConfig", "RunInitializationCommands"}
     /\ run_last.ran) =>
    LET cfg == run_last.config
        steps == run_last.steps
        a == IF Truthy(cfg.service_account_keyfile) THEN 1 ELSE 0
        p == IF Truthy(cfg.project) THEN 1 ELSE 0
        n == a + p + Cardinality(DOMAIN cfg.properties)
        f == run_last.fail_at
    IN /\ Len(steps) = IF f \in 1..n THEN f ELSE n
       /\ run_last.err = IF f \in 1..n THEN "SDKError" ELSE NoError
       /\ (a = 1 /\ Len(steps) >= 1) =>
            steps[1] = "gcloud auth activate-service-account"
                       \o (IF Truthy(cfg.service_account_email)
                           THEN " " \o cfg.service_account_email ELSE "")
                       \o " --key-file " \o cfg.service_account_keyfile
       /\ (p = 1 /\ Len(steps) >= a + 1) =>
            steps[a + 1] = "gcloud config set project " \o cfg.project
       /\ \A i \in (a + p + 1)..Len(steps) :
            \E k \in DOMAIN cfg.properties :
              steps[i] = "gcloud config set " \o k \o " " \o cfg.properties[k]
       /\ \A i, j \in (a + p + 1)..Len(steps) : i # j => steps[i] # steps[j]
       /\ cfg = DEFAULT_CONFIG => steps = <<>>

C17_Witness ==
  /\ run_last.op = "SDKFromConfig"
  /\ run_last.ran
  /\ Truthy(run_last.config.service_account_keyfile)
  /\ Truthy(run_last.config.project)
  /\ Cardinality(DOMAIN run_last.config.properties) = 2
  /\ run_last.fail_at = 3
  /\ run_last.err = "SDKError"
  /\ Len(run_last.steps) = 3

\* C18: a Run with an env argument gives the command the handle's
\* environment overlaid by the argument and changes neither of them; a Run
\* without one gives it the environment the handle was constructed with.
C18_RunEnvOverlay ==
  /\ sdk.made => sdk._env = sdk.env0
  /\ (run_last.op \in RunOps /\ run_last.ran) =>
       /\ run_last.arg_env = run_last.given_env
       /\ run_last.env =
            IF run_last.given_env.kind = "dict"
            THEN Update(sdk.env0, run_last.given_env.value)
            ELSE sdk.env0

C18_Witness ==
  /\ run_last.op = "Run"
  /\ run_last.ran
  /\ run_last.given_env = NoEnv
  /\ sdk.overlaid
  /\ run_last.env = sdk.env0
  /\ PYTHON_PATH \in DOMAIN sdk.env0

\* C19: Run, RunGcloudRawOutput and RunGcloud return the exit code of the
\* command as the third element of their result and do not raise when it
\* is not zero.
C19_ExitCodeReturned ==
  (run_last.op \in RunOps /\ run_last.ran) =>
    /\ run_last.err = NoError
    /\ Len(run_last.result) = 3
    /\ run_last.result[3] = run_last.proc.returncode

C19_Witness ==
  /\ run_last.op = "RunGcloudRawOutput"
  /\ run_last.ran
  /\ run_last.proc.returncode = 1
  /\ run_last.result[3] = 1
  /\ run_last.err = NoError

C11_RejectedLoadNotApplied ==
  (cfg_last.op = "LoadFile" /\ cfg_last.err = "ConfigError") =>
    config = cfg_last.pre

C11_Witness ==
  /\ cfg_last.op = "LoadFile"
  /\ cfg_last.err = "ConfigError"
  /\ \E k \in DOMAIN DEFAULT_CONFIG :
       /\ yaml_load(cfg_last.filename).kind = "dict"
       /\ k \in DOMAIN yaml_load(cfg_last.filename).value
       /\ yaml_load(cfg_last.filename).value[k] # cfg_last.pre[k]
  /\ config = cfg_last.pre

\* C12: after Config(filename, **kwargs) returns, each key has the keyword
\* argument's value if one was passed for it, otherwise the file's value if
\* the file defines it, otherwise the value of DEFAULT_CONFIG.
FileValues(filename) ==
  IF filename # None /\ yaml_load(filename).kind = "dict"
  THEN yaml_load(filename).value ELSE EmptyMap

C12_KwargsOverFileOverDefault ==
  (cfg_last.op = "Config" /\ cfg_last.err = NoError) =>
    \A k \in DOMAIN DEFAULT_CONFIG :
      config[k] = IF k \in DOMAIN cfg_last.kwargs THEN cfg_last.kwargs[k]
                  ELSE IF k \in DOMAIN FileValues(cfg_last.filename)
                  THEN FileValues(cfg_last.filename)[k]
                  ELSE DEFAULT_CONFIG[k]

C12_Witness ==
  /\ cfg_last.op = "Config"
  /\ cfg_last.err = NoError
  /\ "project" \in DOMAIN cfg_last.kwargs
  /\ "project" \in DOMAIN FileValues(cfg_last.filename)
  /\ FileValues(cfg_last.filename).project # cfg_last.kwargs.project
  /\ "service_account_keyfile" \in DOMAIN cfg_last.kwargs
  /\ config.project = cfg_last.kwargs.project
  /\ config.properties = DEFAULT_CONFIG.properties

\* C21: RunGcloud executes 'gcloud', the tokens of the command, the format
\* flag ('--format=json', or '--format=json(k1,k2,...)' with the keys in
\* the given order when format_keys is non-empty) and then the filter flag,
\* which is there only when filters is given (and non-empty); the timeout
\* and the env argument reach Run as the caller gave them.
C21_RunGcloudArgv ==
  (run_last.op = "RunGcloud" /\ run_last.ran) =>
    LET format_flag ==
          IF run_last.format_keys.items = <<>>
          THEN "--format=json"
          ELSE "--format=json("
               \o JoinWith(",", run_last.format_keys.items) \o ")"
        n == Len(run_last.command)
        argv == run_last.argv
    IN /\ Len(argv) \in {n + 2, n + 3}
       /\ argv[1] = "gcloud"
       /\ SubSeq(argv, 2, n + 1) = run_last.command
       /\ argv[n + 2] = format_flag
       /\ (Len(argv) = n + 3) => Truthy(run_last.filters)
       /\ Truthy(run_last.filters) =>
            (Len(argv) = n + 3 /\ argv[n + 3] = "--filter=" \o run_last.filters)
       /\ run_last.timeout = run_last.given_timeout
       /\ run_last.arg_env = run_last.given_env

\* C21 witness: RunGcloud('config list', format_keys=['x', 'y'],
\* filters='bar', timeout=1, env={...}) has run.
C21_Witness ==
  /\ run_last.op = "RunGcloud"
  /\ run_last.ran
  /\ run_last.format_keys.items = <<"x", "y">>
  /\ run_last.filters = "bar"
  /\ run_last.given_timeout.kind = "number"
  /\ run_last.given_env.kind = "dict"
  /\ run_last.argv = <<"gcloud", "config", "list", "--format=json(x,y)",
                       "--filter=bar">>
  /\ run_last.timeout.seconds = 1

\* C22: a Manager entered while an installation is recorded raises
\* InitError and leaves that installation as it was: after the failed
\* Manager the record still names the same root directory and the root
\* directory, if it was there before, is still there.
C22_FailedManagerKeepsInstallation ==
  (last.op = "Manager" /\ RecordIn(last.pre)) =>
    /\ last.err = "InitError"
    /\ RecordIn(os_environ)
    /\ os_environ[DRIVER_LOCATION_ENV] = last.pre[DRIVER_LOCATION_ENV]
    /\ (last.pre[DRIVER_LOCATION_ENV] \in last.prefs
          => last.pre[DRIVER_LOCATION_ENV] \in fs)

\* C23: an Init that raises leaves no keep marker that was not there before
\* the call, and the keep marker is only ever set while a record is.
C23_FailedInitLeavesNoMarker ==
  /\ (last.op = "Init" /\ last.err # NoError /\ ~KeepIn(last.pre))
       => ~KeepIn(os_environ)
  /\ KeepIn(os_environ) => RecordIn(os_environ)

\* C24: when an Init without root_directory raises after it made its
\* temporary root directory, the Destroy that follows removes that
\* directory, and so does the Destroy a Manager runs when its own Init
\* raised.
C24_FailedInitRootRemoved ==
  [][/\ (/\ last.op = "Init"
         /\ last.err # NoError
         /\ last.init.root # None
         /\ ~last.init.given
         /\ last'.op = "Destroy") => last.init.root \notin fs'
     /\ (/\ last'.op = "Manager"
         /\ last'.init.root # None
         /\ ~last'.init.given) => last'.init.root \notin fs']_vars

\* ------------------------------------------------------------------------
\* Properties of _sdk_tar (checked under SpecTar).
\* ------------------------------------------------------------------------
\* C25: a file is under its cache name in the download folder only when
\* its download has completed: DownloadTar never returns a file that holds
\* less than the archive behind the URL, and after a download that broke
\* off a later DownloadTar for the same URL fetches again.
C25_CachedFileComplete ==
  /\ \A p \in DOMAIN files :
       IsUnder(p, PathOf(TarRoot) \o <<DOWNLOAD_FOLDER>>) =>
         \E u \in TarURLs : files[p] = Remote(u)
  /\ (/\ tar_last.op = "DownloadTar"
      /\ tar_last.err = NoError
      /\ HasScheme(tar_last.location)) =>
       files[PathOf(tar_last.result)] = Remote(tar_last.location)

HasMember(archive, name) ==
  \E i \in DOMAIN getmembers(archive) : getmembers(archive)[i].name = name
RepoComponents ==
  "file://" \o PathText(PathOf(TarRoot) \o <<REPO_FOLDER, COMPONENTS_FILE>>)
RepoInstaller == PathText(PathOf(TarRoot) \o <<REPO_FOLDER, INSTALLER_FILE>>)

\* C26: UnpackTar takes an archive for a full repository only if the
\* archive it has just extracted holds components-2.json: only then does
\* it return the URL of the components file in the repo folder and open
\* the nested installer, whatever an earlier install has left in the repo
\* folder.
C26_ClassifiedByArchive ==
  (tar_last.op = "UnpackTar" /\ tar_last.archive \in Archives) =>
    \/ HasMember(tar_last.archive, <<COMPONENTS_FILE>>)
    \/ /\ tar_last.kind # "repo"
       /\ tar_last.result # RepoComponents
       /\ \A i \in DOMAIN tar_last.opened :
            tar_last.opened[i] # RepoInstaller

\* C27: when UnpackTar takes the archive for an installer, every entry of
\* the archive is directly under the root directory when it returns and
\* the repo folder holds none of them, on the first install and on every
\* later install into the same root.
C27_InstallerMovedUp ==
  (tar_last.op = "UnpackTar" /\ tar_last.kind = "installer"
   /\ tar_last.err = NoError) =>
    LET root == tar_last.directory
        members == getmembers(tar_last.archive)
    IN \A i \in DOMAIN members :
         /\ Exists(files, root \o members[i].name)
         /\ ~Exists(files, root \o <<REPO_FOLDER>> \o members[i].name)

\* C28: for an archive that holds components-2.json UnpackTar returns the
\* file URL of components-2.json in the repo folder, extracts the members
\* of the nested installer archive of the repo folder into the root
\* directory and moves nothing out of the repo folder.
C28_RepoUnpacked ==
  (/\ tar_last.op = "UnpackTar"
   /\ tar_last.archive \in Archives
   /\ HasMember(tar_last.archive, <<COMPONENTS_FILE>>)) =>
    LET root == tar_last.directory
        repo == root \o <<REPO_FOLDER>>
        nested == getmembers(files[repo \o <<INSTALLER_FILE>>])
    IN /\ tar_last.err = NoError
       /\ tar_last.result = RepoComponents
       /\ tar_last.opened = <<tar_last.download_path, RepoInstaller>>
       /\ \A i \in DOMAIN nested :
            /\ Exists(files, root \o nested[i].name)
            /\ nested[i].isfile => IsFile(files, root \o nested[i].name)
            /\ (nested[i].isfile
                /\ ~Exists(tar_last.pre, root \o nested[i].name)) =>
                 files[root \o nested[i].name] = nested[i].content
       /\ tar_last.moved = {}
       /\ \A p \in DOMAIN tar_last.pre :
            IsUnder(p, repo) => (p \in DOMAIN files
                                 /\ files[p] = tar_last.pre[p])
       /\ \A i \in DOMAIN getmembers(tar_last.archive) :
            Exists(files, repo \o getmembers(tar_last.archive)[i].name)

\* C28 witness: a full repository has been unpacked into a root directory
\* that had no SDK folder, and the installer's files are there.
C28_Witness ==
  /\ tar_last.op = "UnpackTar"
  /\ tar_last.archive = "repo-v1"
  /\ ~Exists(tar_last.pre, tar_last.directory \o <<SDK_FOLDER>>)
  /\ tar_last.result = "file:///work/sdk1/repo/components-2.json"
  /\ IsFile(files, tar_last.directory \o <<SDK_FOLDER, "install.sh">>)
  /\ IsFile(files, tar_last.directory \o <<REPO_FOLDER, COMPONENTS_FILE>>)

\* C29: for an archive without components-2.json UnpackTar returns the
\* file URL of the components-2.json next to the original location
\* exactly when the original location has no URL scheme and that file
\* exists; in every other case it returns None; it does not raise and it
\* opens no nested installer archive.
C29_InstallerSnapshot ==
  (/\ tar_last.op = "UnpackTar"
   /\ tar_last.archive \in Archives
   /\ ~HasMember(tar_last.archive, <<COMPONENTS_FILE>>)) =>
    LET sibling == os_path_dirname(PathOf(tar_last.location))
                   \o <<COMPONENTS_FILE>>
        local == \A c \in Schemes :
                   \/ Len(tar_last.location) < Len(c)
                   \/ SubSeq(tar_last.location, 1, Len(c)) # c
    IN /\ tar_last.err = NoError
       /\ tar_last.opened = <<tar_last.download_path>>
       /\ tar_last.result =
            IF local /\ IsFile(tar_last.pre, sibling)
            THEN "file://" \o PathText(sibling)
            ELSE None

\* C30: ExtractWithoutOverwrite skips exactly the file members whose path
\* is a regular file under the target and extracts every other member: a
\* skipped file keeps its content, an extracted file has the member's
\* content and every directory member is there; a second pass with the
\* same archive and target changes nothing on the disk.
C30_ExtractSkipsExisting ==
  (tar_last.op = "ExtractWithoutOverwrite" /\ tar_last.err = NoError) =>
    LET members == getmembers(tar_last.archive)
        target(i) == tar_last.directory \o members[i].name
        existing(i) == /\ members[i].isfile
                       /\ target(i) \in DOMAIN tar_last.pre
                       /\ tar_last.pre[target(i)] # DirNode
        again == ExtractWithoutOverwrite(files, members, tar_last.directory)
    IN /\ \A i \in DOMAIN members :
            IF existing(i)
            THEN /\ members[i].name \in Range(tar_last.skipped)
                 /\ members[i].name \notin Range(tar_last.extracted)
                 /\ files[target(i)] = tar_last.pre[target(i)]
            ELSE /\ members[i].name \in Range(tar_last.extracted)
                 /\ members[i].name \notin Range(tar_last.skipped)
                 /\ target(i) \in DOMAIN files
                 /\ members[i].isfile => files[target(i)] = members[i].content
       /\ again.err = NoError
       /\ again.files = files

\* C30 witness: an archive was extracted over an older version of itself:
\* install.sh was there and was skipped, VERSION was not and was extracted.
C30_Witness ==
  /\ tar_last.op = "ExtractWithoutOverwrite"
  /\ tar_last.err = NoError
  /\ tar_last.archive = "installer-v2"
  /\ tar_last.skipped = <<<<SDK_FOLDER, "install.sh">>>>
  /\ tar_last.extracted = <<<<SDK_FOLDER>>, <<SDK_FOLDER, "VERSION">>>>
  /\ files[tar_last.directory \o <<SDK_FOLDER, "install.sh">>]
       = "install.sh v1"
  /\ files[tar_last.directory \o <<SDK_FOLDER, "VERSION">>] = "2"

\* C31: of two DownloadTar calls with the same URL and download directory
\* that return, the first one starting without the file, the first fetches
\* and the second does not, and both return the path of the URL's last
\* segment in the download folder; a call that finds the file there does
\* not fetch.
C31_OneFetchForTwoCalls ==
  [][(tar_last'.op = "DownloadTar" /\ HasScheme(tar_last'.location)) =>
       LET url == tar_last'.location
           cached == PathOf(TarRoot)
                     \o <<DOWNLOAD_FOLDER,
                          os_path_basename(UrlPath(url))>>
       IN /\ IsFile(tar_last'.pre, cached) =>
               (~tar_last'.fetched /\ tar_last'.err = NoError)
          /\ tar_last'.err = NoError =>
               tar_last'.result = PathText(cached)
          /\ (/\ tar_last.op = "DownloadTar"
              /\ tar_last.location = url
              /\ tar_last.err = NoError
              /\ tar_last'.err = NoError
              /\ ~IsFile(tar_last.pre, cached)) =>
               /\ tar_last.fetched
               /\ ~tar_last'.fetched
               /\ tar_last'.result = tar_last.result]_vars

\* C31 witness: the second of two calls with the release URL has returned
\* the file the first one fetched.
C31_Witness ==
  /\ tar_last.op = "DownloadTar"
  /\ tar_last.location = RELEASE_TAR
  /\ tar_last.err = NoError
  /\ ~tar_last.fetched
  /\ tar_last.result = "/work/sdk1/downloads/google-cloud-sdk.tar.gz"
  /\ tar_last.pre[PathOf(tar_last.result)] = Remote(RELEASE_TAR)
  /\ files = tar_last.pre

\* C32: for a location without a URL scheme DownloadTar returns the
\* location as it is when it is a file and raises ValueError when it is
\* not; it fetches nothing and makes no download folder.
C32_LocalLocation ==
  (tar_last.op = "DownloadTar" /\ ~HasScheme(tar_last.location)) =>
    /\ IF IsFile(tar_last.pre, PathOf(tar_last.location))
       THEN tar_last.err = NoError /\ tar_last.result = tar_last.location
       ELSE tar_last.err = "ValueError" /\ tar_last.result = None
    /\ ~tar_last.fetched
    /\ files = tar_last.pre

\* C32 witness: a missing local tar was asked for while the root directory
\* had no download folder, and it still has none.
C32_Witness ==
  /\ tar_last.op = "DownloadTar"
  /\ tar_last.location = MissingTar
  /\ tar_last.err = "ValueError"
  /\ ~Exists(files, PathOf(TarRoot) \o <<DOWNLOAD_FOLDER>>)

\* C33: UnpackTar, whether it returns or raises, leaves every regular file
\* that was under the root directory before the call, directly or in the
\* repo folder, with the content it had: the file is where it was, or,
\* when its top folder was moved up out of the repo folder, at its new
\* place under the root directory.
C33_UnpackKeepsFiles ==
  tar_last.op = "UnpackTar" =>
    LET root == tar_last.directory
        repo == root \o <<REPO_FOLDER>>
        place(p) == IF IsUnder(p, repo) /\ p[Len(repo) + 1] \in tar_last.moved
                    THEN root \o SubSeq(p, Len(repo) + 1, Len(p))
                    ELSE p
    IN \A p \in DOMAIN tar_last.pre :
         (IsUnder(p, root) /\ tar_last.pre[p] # DirNode) =>
           /\ place(p) \in DOMAIN files
           /\ files[place(p)] = tar_last.pre[p]

\* C34: a directory that Destroy removes, called directly or by Manager, is
\* the root of the record that was active, and it did not exist when the
\* Init that made the record was called: that Init made it, as a temporary
\* directory or as the missing root_directory it was given.
C34_DestroyRemovesOwnDirectory ==
  last.op \in {"Destroy", "Manager", "ManagerExit"} =>
    /\ \A d \in last.prefs \ fs :
         /\ last.rec.root = d
         /\ ~last.rec.existed
    /\ "rmtree" \in Range(last.steps) => last.prefs \ fs # {}

\* C34 witness: an existing root directory was given to Init, the record was
\* cleared and the directory is still there.
C34_Witness ==
  /\ last.op \in {"Destroy", "ManagerExit"}
  /\ last.rec.given /\ last.rec.existed
  /\ last.rec.root \in last.prefs
  /\ last.rec.root \in fs
  /\ DRIVER_LOCATION_ENV \notin DOMAIN os_environ

\* C35: SDKFromConfig leaves the mapping config.environment_variables with
\* the items it had, whether it returns or raises; the environment of an
\* SDK object is a mapping of its own, neither the Config's nor that of
\* another SDK object made from the same Config, and it keeps the items it
\* was made with when the Config is changed or another SDK object is made.
C35_PrepareEnvironCopies ==
  /\ env_last.op = "SDKFromConfig" => env_last.post = env_last.pre
  /\ \A i \in Slots :
       envs[i].made =>
         /\ envs[i].ref # cfg_obj["environment_variables"]
         /\ heap[envs[i].ref] = envs[i].env0
         /\ \A j \in Slots \ {i} : envs[j].made => envs[j].ref # envs[i].ref

\* C35 witness: two SDK objects were made from one Config whose
\* environment_variables got FOO in between: the second has it, the first
\* has not.
C35_Witness ==
  /\ envs[1].made /\ envs[2].made
  /\ env_last.slot = 2 /\ env_last.err = NoError
  /\ "FOO" \in ItemKeys(heap[cfg_obj["environment_variables"]])
  /\ "FOO" \in ItemKeys(heap[envs[2].ref])
  /\ "FOO" \notin ItemKeys(heap[envs[1].ref])
  /\ CONFIG_ENV \in ItemKeys(heap[envs[1].ref])
  /\ CONFIG_ENV \notin ItemKeys(heap[cfg_obj["environment_variables"]])

\* C36: PrepareEnviron returns an environment whose CLOUDSDK_PYTHON is the
\* caller's when the caller's mapping has one and sys.executable otherwise,
\* and raises SDKError exactly when the caller's mapping has none and
\* sys.executable is not set, whatever CLOUDSDK_PYTHON the host environment
\* has. An Init that has downloaded and unpacked raises the InitError for a
\* missing interpreter exactly when sys.executable is not set and the host
\* environment has no CLOUDSDK_PYTHON, and then starts no installer.
C36_InterpreterOrError ==
  /\ run_last.op = "PrepareEnviron" =>
       LET user_environ == run_last.given_env.value
           neither == /\ PYTHON_ENV \notin DOMAIN user_environ
                      /\ ~Truthy(sys_executable)
       IN /\ run_last.err = (IF neither THEN "SDKError" ELSE NoError)
          /\ ~neither =>
               run_last.env[PYTHON_ENV] =
                 IF PYTHON_ENV \in DOMAIN user_environ
                 THEN user_environ[PYTHON_ENV] ELSE sys_executable
  /\ last.op = "Init" =>
       LET neither == /\ PYTHON_ENV \notin DOMAIN last.pre
                      /\ ~Truthy(sys_executable)
           unpacked == /\ "UnpackTar" \in Range(last.steps)
                       /\ last.why # "extracting"
       IN /\ last.why = "no python" <=> (unpacked /\ neither)
          /\ last.why = "no python" => last.err = "InitError"
          /\ neither => (last.err # NoError
                         /\ "Popen" \notin Range(last.steps))

\* C36 witness: in a process without sys.executable whose host environment
\* has CLOUDSDK_PYTHON, Init has installed and PrepareEnviron has raised
\* SDKError for a mapping without CLOUDSDK_PYTHON.
C36_Witness ==
  /\ sys_executable = None
  /\ PYTHON_ENV \in DOMAIN os_environ
  /\ last.op = "Init" /\ last.err = NoError
  /\ run_last.op = "PrepareEnviron"
  /\ run_last.err = "SDKError"
  /\ PYTHON_ENV \notin DOMAIN run_last.given_env.value

\* C37: the environment of every process started by Run, RunGcloud or
\* RunGcloudRawOutput has CLOUDSDK_CONFIG set to the configuration folder of
\* the SDK object, <sdk_dir>/<config_name>, whatever env argument the call
\* was given.
C37_ConfigDirOfHandle ==
  (run_last.op \in {"Run", "RunGcloud", "RunGcloudRawOutput"}
   /\ run_last.ran) =>
    /\ CONFIG_ENV \in DOMAIN run_last.env
    /\ run_last.env[CONFIG_ENV] = os_path_join(sdk._sdk_dir, sdk._config_name)

\* C38: the environment the installer is started with holds every variable
\* of os.environ with its value there, so also a CLOUDSDK_PYTHON or a
\* snapshot URL of the host; a CLOUDSDK_PYTHON the host has not is
\* sys.executable, a snapshot variable the host has not is there exactly
\* when UnpackTar returned a URL, with that URL; and beyond these it holds
\* only the keep marker Init has set for an existing root directory.
C38_InstallerEnvironment ==
  (last.op \in {"Init", "ManagerEnter", "Manager"}
   /\ "Popen" \in Range(last.steps)) =>
    /\ \A k \in DOMAIN last.pre :
         k \in DOMAIN last.env /\ last.env[k] = last.pre[k]
    /\ PYTHON_ENV \in DOMAIN last.env
    /\ PYTHON_ENV \notin DOMAIN last.pre =>
         last.env[PYTHON_ENV] = sys_executable
    /\ SNAPSHOT_ENV \notin DOMAIN last.pre =>
         IF last.snapshot_url = None
         THEN SNAPSHOT_ENV \notin DOMAIN last.env
         ELSE /\ SNAPSHOT_ENV \in DOMAIN last.env
              /\ last.env[SNAPSHOT_ENV] = last.snapshot_url
    /\ \A k \in DOMAIN last.env :
         \/ k \in DOMAIN last.pre \cup {PYTHON_ENV, SNAPSHOT_ENV}
         \/ /\ k = DRIVER_KEEP_LOCATION_ENV
            /\ last.init.given /\ last.init.existed

\* C38 witness: the host environment has a CLOUDSDK_PYTHON and a snapshot
\* URL of its own, sys.executable is set and UnpackTar returned a URL: the
\* installer was started with the host's two values.
C38_Witness ==
  /\ last.op = "Init" /\ last.err = NoError
  /\ sys_executable = "sys_python"
  /\ last.snapshot_url # None
  /\ {PYTHON_ENV, SNAPSHOT_ENV} \subseteq DOMAIN last.pre
  /\ last.pre[PYTHON_ENV] = "env_python"
  /\ last.pre[SNAPSHOT_ENV] = HostSnapshot
  /\ last.env[PYTHON_ENV] = "env_python"
  /\ last.env[SNAPSHOT_ENV] = HostSnapshot
  /\ last.snapshot_url # HostSnapshot

\* The fixed part of the installer's command line for a root directory.
FixedInstallerFlags(root) ==
  <<"./install.sh", "--disable-installation-options",
    "--bash-completion=false", "--path-update=false",
    "--usage-reporting=false", "--rc-path=" \o root \o "/.bashrc">>
PopenCount(steps) == Cardinality({i \in DOMAIN steps : steps[i] = "Popen"})

\* C39: an Init that returns has started the installer exactly once, with
\* ./install.sh and the fixed flags, followed by --additional-components
\* and the components in their order exactly when additional_components is
\* a non-empty list; an Init that finds a string as additional_components
\* raises InitError, starts no installer and publishes no record.
C39_InstallerCommandLine ==
  /\ (last.op \in {"Init", "ManagerEnter"} /\ last.err = NoError) =>
       /\ PopenCount(last.steps) = 1
       /\ last.command =
            FixedInstallerFlags(last.init.root)
            \o (IF last.components.kind = "list"
                   /\ last.components.items # <<>>
                THEN <<"--additional-components">> \o last.components.items
                ELSE <<>>)
  /\ (last.op = "Init" /\ last.components.kind = "str") =>
       /\ last.err = "InitError"
       /\ PopenCount(last.steps) = 0
       /\ DRIVER_LOCATION_ENV \notin DOMAIN os_environ

\* C39 amended: as C39, but it is a non-empty string that raises InitError;
\* the empty string is taken like None: the installer is started with the
\* fixed flags only.
C39_InstallerCommandLineNonEmpty ==
  /\ (last.op \in {"Init", "ManagerEnter"} /\ last.err = NoError) =>
       /\ PopenCount(last.steps) = 1
       /\ last.command =
            FixedInstallerFlags(last.init.root)
            \o (IF last.components.kind = "list"
                   /\ last.components.items # <<>>
                THEN <<"--additional-components">> \o last.components.items
                ELSE <<>>)
  /\ (last.op = "Init" /\ last.components.kind = "str"
      /\ last.components.text # "") =>
       /\ last.err = "InitError"
       /\ PopenCount(last.steps) = 0
       /\ DRIVER_LOCATION_ENV \notin DOMAIN os_environ
  /\ (last.op = "Init" /\ last.components.kind = "str"
      /\ last.components.text = "") =>
       /\ PopenCount(last.steps) = 1
       /\ last.command = FixedInstallerFlags(last.init.root)

\* C39 witness: Init has installed into a given root directory with two
\* additional components.
C39_Witness ==
  /\ last.op = "Init" /\ last.err = NoError
  /\ last.init.root = RootNames[1]
  /\ last.components.items = <<"foo", "bar">>
  /\ last.command =
       <<"./install.sh", "--disable-installation-options",
         "--bash-completion=false", "--path-update=false",
         "--usage-reporting=false", "--rc-path=/work/sdk1/.bashrc",
         "--additional-components", "foo", "bar">>
  /\ os_environ[DRIVER_LOCATION_ENV] = RootNames[1]

\* The tokens _PrepareCommand returned, read off the command the process
\* was given: Run passes them on as they are, RunGcloudRawOutput puts
\* 'gcloud' before them and the flags after them.
IsFlag(token) == Len(token) >= 2 /\ SubSeq(token, 1, 2) = "--"
PreparedTokens(call) ==
  IF call.op = "Run" THEN call.argv
  ELSE SelectSeq(Tail(call.argv), LAMBDA token : ~IsFlag(token))
FlagsComeLast(call) ==
  \/ call.op = "Run"
  \/ /\ call.argv # <<>>
     /\ call.argv[1] = "gcloud"
     /\ \A i, j \in 2..Len(call.argv) :
          IsFlag(call.argv[i]) /\ i < j => IsFlag(call.argv[j])
NoBlank(token) ==
  token # "" /\ \A i \in 1..Len(token) : SubSeq(token, i, i) # " "

\* C40: _PrepareCommand dispatches on the shape of the command. A list or
\* a tuple gives a list of the same tokens in the same order, and the
\* caller's sequence is what it was after the flags were appended; a string
\* is split into its words; any other value raises SDKError and no process
\* is started.
C40_PrepareCommandDispatch ==
  run_last.op \in {"Run", "RunGcloudRawOutput", "RunGcloud"} =>
    LET given == run_last.given_command
        tokens == PreparedTokens(run_last)
    IN /\ given.kind \in {"list", "tuple"} =>
            /\ run_last.ran
            /\ FlagsComeLast(run_last)
            /\ tokens = given.items
            /\ run_last.arg_command = given
       /\ given.kind = "str" =>
            /\ run_last.ran
            /\ FlagsComeLast(run_last)
            /\ \A i \in 1..Len(tokens) : NoBlank(tokens[i])
            /\ JoinWith(" ", tokens) = given.text
       /\ given.kind \notin {"list", "tuple", "str"} =>
            /\ run_last.err = "SDKError"
            /\ ~run_last.ran
            /\ run_last.argv = <<>>
            /\ run_last.result = <<>>

\* C40 witness: a tuple was given to RunGcloudRawOutput, the process was
\* started with 'gcloud', the tuple's tokens and a flag after them, and the
\* tuple is unchanged.
C40_Witness ==
  /\ run_last.op = "RunGcloudRawOutput"
  /\ run_last.given_command.kind = "tuple"
  /\ run_last.ran
  /\ Len(run_last.argv) > Len(run_last.given_command.items) + 1
  /\ PreparedTokens(run_last) = run_last.given_command.items
  /\ run_last.arg_command = run_last.given_command
====
